---- MODULE Spec2Model ----
(***************************************************************************)
(* Model of the UR arm driver: the dashboard text-protocol client          *)
(* (ur_dashboard.py), its initialize() recovery sequence, and the task     *)
(* facade (ur_driver.py).  Text is modelled character by character, as a   *)
(* sequence of one-character strings, so that slicing, stripping and       *)
(* splitting are computed the way the Python code computes them.           *)
(***************************************************************************)
EXTENDS Integers, Sequences, FiniteSets, TLC

VARIABLES
    connection,             \* UR_DASHBOARD.connection: "None" or "socket"
    sockState,              \* OS state of the socket object connection refers to
    inflight,               \* lines the controller wrote on that socket, not yet read
    robotMode,              \* controller: robot mode
    safetyStatus,           \* controller: safety status
    opMode,                 \* controller: operational mode
    ret,                    \* value returned by the last send_command
    lastSend,               \* record of what the last send_command did
    op,                     \* the operation called last
    pc,                     \* position of the running operation
    outcome,                \* how the last operation ended
    robot_mode,             \* locals of initialize
    operation_mode,
    safety_status,
    remote_control_status,
    passLog,                \* commands sent so far in the current pass of initialize
    buffer,                 \* a received buffer handed to the response processing
    processed,              \* what send_command returns for that buffer
    joints,                 \* the arm: its joint angles, in units of 4 mrad
    robot_current_joint_angles,  \* UR: the formatted angles of the previous poll
    program_name,           \* run_urp_program: its argument
    program_status,         \* run_urp_program locals
    ready_status_count,
    pollLog,                \* what the last polls of get_movement_state returned
    task,                   \* the arguments of the facade task called last
    hwLog,                  \* what that task sent to the arm and to the gripper
    caught                  \* the exception its except branch printed, if any

dashVars == <<connection, sockState, inflight, robotMode, safetyStatus, opMode,
              ret, lastSend, op, pc, outcome, robot_mode, operation_mode,
              safety_status, remote_control_status, passLog>>

responseVars == <<buffer, processed>>

urpVars == <<joints, robot_current_joint_angles, program_name, program_status,
             ready_status_count, pollLog>>

taskVars == <<task, hwLog, caught>>

vars == <<dashVars, responseVars, urpVars, taskVars>>

----------------------------------------------------------------------------
(* Bounds *)

\* detections in one image
MaxDetections == 2

\* lines in a reply to the load of the interpreter program
MaxReplyLines == 2

\* at most this many lines may stay unread on the socket after a recv, for the
\* calls made by the user of the client and for the calls made inside initialize
\* and run_urp_program
MaxLate == 1
MaxLateNested == 0

\* joints of the arm, and the largest joint angle, in units of 4 mrad
NumJoints == 1
MaxAngle == 2

\* number of lines in a received buffer of the response-processing specification
MaxLines == 3

\* the statements of a task body, counted from 1, among which one may fail
MaxSteps == 20

----------------------------------------------------------------------------
(* Text *)

\* Python None, kept apart from every text (texts hold one-character strings)
None == <<"None">>

Banner == <<"C","o","n","n","e","c","t","e","d",":"," ","U","n","i","v","e","r","s","a","l"," ","R","o","b","o","t","s"," ","D","a","s","h","b","o","a","r","d"," ","S","e","r","v","e","r">>

RUNNING == <<"R","U","N","N","I","N","G">>
POWER_OFF == <<"P","O","W","E","R","_","O","F","F">>
BOOTING == <<"B","O","O","T","I","N","G">>
POWER_ON == <<"P","O","W","E","R","_","O","N">>
IDLE == <<"I","D","L","E">>
BACKDRIVE == <<"B","A","C","K","D","R","I","V","E">>
NORMAL == <<"N","O","R","M","A","L">>
PROTECTIVE_STOP == <<"P","R","O","T","E","C","T","I","V","E","_","S","T","O","P">>
FAULT == <<"F","A","U","L","T">>
MANUAL == <<"M","A","N","U","A","L">>
AUTOMATIC == <<"A","U","T","O","M","A","T","I","C">>

CmdRobotmode == <<"r","o","b","o","t","m","o","d","e">>
CmdSafetystatus == <<"s","a","f","e","t","y","s","t","a","t","u","s">>
CmdGetOperationalMode == <<"g","e","t"," ","o","p","e","r","a","t","i","o","n","a","l"," ","m","o","d","e">>
CmdIsInRemoteControl == <<"i","s"," ","i","n"," ","r","e","m","o","t","e"," ","c","o","n","t","r","o","l">>
CmdUnlockProtectiveStop == <<"u","n","l","o","c","k"," ","p","r","o","t","e","c","t","i","v","e"," ","s","t","o","p">>
CmdCloseSafetyPopup == <<"c","l","o","s","e"," ","s","a","f","e","t","y"," ","p","o","p","u","p">>
CmdRestartSafety == <<"r","e","s","t","a","r","t"," ","s","a","f","e","t","y">>
CmdBrakeRelease == <<"b","r","a","k","e"," ","r","e","l","e","a","s","e">>
CmdLoad(program_path) == <<"l","o","a","d"," ">> \o program_path
CmdPlay == <<"p","l","a","y">>
CmdSetOperationalMode(mode) == <<"s","e","t"," ","o","p","e","r","a","t","i","o","n","a","l"," ","m","o","d","e"," ">> \o mode
automatic == <<"a","u","t","o","m","a","t","i","c">>

LowerCase == <<"a","b","c","d","e","f","g","h","i","j","k","l","m","n","o","p","q","r","s","t","u","v","w","x","y","z">>
UpperCase == <<"A","B","C","D","E","F","G","H","I","J","K","L","M","N","O","P","Q","R","S","T","U","V","W","X","Y","Z">>

Min(S) == CHOOSE x \in S : \A y \in S : x <= y
Max(S) == CHOOSE x \in S : \A y \in S : x >= y

\* str.upper()
Upper(s) ==
    [i \in 1..Len(s) |->
        IF \E j \in 1..Len(LowerCase) : LowerCase[j] = s[i]
        THEN UpperCase[CHOOSE j \in 1..Len(LowerCase) : LowerCase[j] = s[i]]
        ELSE s[i]]

\* s[n:]
DropFirst(s, n) == IF n >= Len(s) THEN <<>> ELSE SubSeq(s, n + 1, Len(s))

\* the positions where sub occurs in s
Occurrences(s, sub) ==
    {i \in 1..(Len(s) - Len(sub) + 1) : SubSeq(s, i, i + Len(sub) - 1) = sub}

\* s.find(sub) != -1
Contains(s, sub) == Occurrences(s, sub) # {}

IsSpace(c) == c \in {" ", "\n", "\t", "\r"}

\* str.strip()
Strip(s) ==
    LET keep == {i \in 1..Len(s) : ~IsSpace(s[i])}
    IN  IF keep = {} THEN <<>> ELSE SubSeq(s, Min(keep), Max(keep))

\* str.split(' '): cut at every single space, empty tokens included
RECURSIVE Split(_)
Split(s) ==
    LET sp == {i \in 1..Len(s) : s[i] = " "}
    IN  IF sp = {} THEN <<s>>
        ELSE <<SubSeq(s, 1, Min(sp) - 1)>> \o Split(DropFirst(s, Min(sp)))

\* the received lines joined into one buffer
RECURSIVE Flatten(_)
Flatten(lines) ==
    IF lines = <<>> THEN <<>> ELSE Head(lines) \o Flatten(Tail(lines))

Line(text) == text \o <<"\n">>

\* s.startswith(prefix)
StartsWith(s, prefix) ==
    Len(s) >= Len(prefix) /\ SubSeq(s, 1, Len(prefix)) = prefix

----------------------------------------------------------------------------
(* The dashboard client: connect, disconnect, send_command *)

\* the three fields connect() and disconnect() work on
Sock == [connection |-> connection, sockState |-> sockState, inflight |-> inflight]

ConnectOutcomes == {"ok", "refused", "no_socket"}

\* connect(): the socket object is assigned to self.connection before the TCP
\* connect is attempted; every error is caught and printed.
\*   no_socket: socket.socket() itself raises, nothing is assigned
\*   refused:   socket.connect() raises, the new unconnected socket stays assigned
\*   ok:        connected; the controller greets with the banner line
Connect(s, how) ==
    CASE how = "no_socket" -> s
      [] how = "refused" ->
            [connection |-> "socket", sockState |-> "unconnected", inflight |-> <<>>]
      [] OTHER ->
            [connection |-> "socket", sockState |-> "connected",
             inflight |-> <<Line(Banner)>>]

\* disconnect(): self.connection.close(); the field keeps the closed socket
Disconnect(s) ==
    [connection |-> s.connection, sockState |-> "closed", inflight |-> <<>>]

\* the controller's state as a record
Ctl == [robotMode |-> robotMode, safetyStatus |-> safetyStatus, opMode |-> opMode]

\* The controller executes one command and answers with one line.  coin is the
\* controller's choice: whether a recovery command takes effect, and what the
\* remote-control query answers.
Controller(c, command, coin) ==
    CASE command = CmdRobotmode ->
            [ctl |-> c, reply |-> <<"R","o","b","o","t","m","o","d","e",":"," ">> \o c.robotMode]
      [] command = CmdSafetystatus ->
            [ctl |-> c, reply |-> <<"S","a","f","e","t","y","s","t","a","t","u","s",":"," ">> \o c.safetyStatus]
      [] command = CmdGetOperationalMode ->
            [ctl |-> c, reply |-> c.opMode]
      [] command = CmdIsInRemoteControl ->
            [ctl |-> c, reply |-> IF coin THEN <<"t","r","u","e">> ELSE <<"f","a","l","s","e">>]
      [] command = CmdUnlockProtectiveStop ->
            [ctl |-> IF coin /\ c.safetyStatus = PROTECTIVE_STOP
                     THEN [c EXCEPT !.safetyStatus = NORMAL] ELSE c,
             reply |-> <<"P","r","o","t","e","c","t","i","v","e"," ","s","t","o","p"," ","r","e","l","e","a","s","i","n","g">>]
      [] command = CmdCloseSafetyPopup ->
            [ctl |-> c, reply |-> <<"c","l","o","s","i","n","g"," ","s","a","f","e","t","y"," ","p","o","p","u","p">>]
      [] command = CmdRestartSafety ->
            [ctl |-> IF coin
                     THEN [c EXCEPT !.safetyStatus = NORMAL, !.robotMode = POWER_OFF]
                     ELSE c,
             reply |-> <<"R","e","s","t","a","r","t","i","n","g"," ","s","a","f","e","t","y">>]
      [] command = CmdBrakeRelease ->
            [ctl |-> IF coin /\ c.safetyStatus = NORMAL
                     THEN [c EXCEPT !.robotMode = RUNNING] ELSE c,
             reply |-> <<"B","r","a","k","e"," ","r","e","l","e","a","s","i","n","g">>]
      [] command = CmdSetOperationalMode(automatic) ->
            [ctl |-> [c EXCEPT !.opMode = AUTOMATIC],
             reply |-> <<"S","e","t","t","i","n","g"," ","o","p","e","r","a","t","i","o","n","a","l"," ","m","o","d","e",":"," ","A","U","T","O","M","A","T","I","C">>]
      [] StartsWith(command, CmdLoad(<<>>)) ->
            [ctl |-> c,
             reply |-> IF coin
                       THEN <<"L","o","a","d","i","n","g"," ","p","r","o","g","r","a","m",":"," ">> \o DropFirst(command, Len(CmdLoad(<<>>)))
                       ELSE <<"F","i","l","e"," ","n","o","t"," ","f","o","u","n","d",":"," ">> \o DropFirst(command, Len(CmdLoad(<<>>)))]
      [] command = CmdPlay ->
            [ctl |-> c,
             reply |-> IF coin THEN <<"S","t","a","r","t","i","n","g"," ","p","r","o","g","r","a","m">> ELSE <<"F","a","i","l","e","d"," ","t","o"," ","e","x","e","c","u","t","e",":"," ","p","l","a","y">>]
      [] OTHER ->
            [ctl |-> c, reply |-> <<"c","o","u","l","d"," ","n","o","t"," ","u","n","d","e","r","s","t","a","n","d">>]

\* lines 40-42: if the banner occurs anywhere in the response, cut 45 characters
BannerCut == 45

StripBanner(response) ==
    IF Contains(response, Banner) THEN DropFirst(response, BannerCut) ELSE response

\* lines 38-46: what send_command returns for a received buffer
ProcessResponse(response) == Strip(StripBanner(response))

\* mutant: the handler re-raises
OnException_Reraise == [ret |-> None, raised |-> "OSError"]

\* lines 48-49: any exception is caught and printed, the call returns None
OnException == [ret |-> None, raised |-> "none"]

SendOutcomes == {"ok", "send_fails", "recv_fails"}

\* send_command(command): connect if there is no connection object, send the
\* command, sleep, receive what has arrived, strip the banner, return the text.
\*   how:   outcome of connect(), when it is called
\*   net:   whether sendall or recv fails on a connected socket
\*   late:  how many of the lines written by the controller have not arrived
\*          when recv gives up waiting (all of them: recv times out)
\*   coin:  the controller's choice
SendCommand(s, c, command, how, net, late, coin) ==
    LET called == s.connection = "None"
        s1   == IF called THEN Connect(s, how) ELSE s
        base == [sock |-> s1, ctl |-> c, connectCalled |-> called,
                 connAtCall |-> s.sockState, command |-> command,
                 expected |-> None, error |-> TRUE]
        fail(r) == r @@ OnException
    IN  IF s1.connection = "None" \/ s1.sockState # "connected"
        THEN fail(base)
        ELSE IF net = "send_fails"
        THEN fail([base EXCEPT !.sock.sockState = "broken", !.sock.inflight = <<>>])
        ELSE
            LET did   == Controller(c, command, coin)
                lines == Append(s1.inflight, Line(did.reply))
                sent  == [base EXCEPT !.ctl = did.ctl, !.expected = Line(did.reply)]
                n     == Len(lines) - late
            IN  IF net = "recv_fails"
                THEN fail([sent EXCEPT !.sock.sockState = "broken",
                                       !.sock.inflight = <<>>])
                ELSE IF n <= 0
                THEN fail([sent EXCEPT !.sock.inflight = lines])
                ELSE
                    LET buf == Flatten(SubSeq(lines, 1, n))
                    IN  [sent EXCEPT !.sock.inflight = DropFirst(lines, n),
                                     !.error = FALSE]
                        @@ [ret |-> ProcessResponse(buf), raised |-> "none"]

\* the commands whose effect or answer is the controller's choice
Chosen(command) ==
    \/ command \in {CmdIsInRemoteControl, CmdUnlockProtectiveStop, CmdRestartSafety,
                     CmdBrakeRelease, CmdPlay}
    \/ StartsWith(command, CmdLoad(<<>>))

\* one call of send_command as a step of the running operation; a choice that
\* the call never reads is not enumerated
Call(command, maxLate) ==
    \E how \in IF connection = "None" THEN ConnectOutcomes ELSE {"ok"} :
    \E net \in IF connection = "None" \/ sockState = "connected"
               THEN SendOutcomes ELSE {"ok"} :
    \E late \in IF net = "ok" THEN 0..maxLate ELSE {0} :
    \E coin \in IF net # "send_fails" /\ Chosen(command)
                THEN BOOLEAN ELSE {TRUE} :
    \E r \in {SendCommand(Sock, Ctl, command, how, net, late, coin)} :
            /\ connection' = r.sock.connection
            /\ sockState' = r.sock.sockState
            /\ inflight' = r.sock.inflight
            /\ robotMode' = r.ctl.robotMode
            /\ safetyStatus' = r.ctl.safetyStatus
            /\ opMode' = r.ctl.opMode
            /\ ret' = r.ret
            /\ lastSend' = [command |-> r.command, connectCalled |-> r.connectCalled,
                            connAtCall |-> r.connAtCall, expected |-> r.expected,
                            error |-> r.error,
                            raised |-> r.raised]

NoCall == UNCHANGED <<connection, sockState, inflight, robotMode, safetyStatus,
                      opMode, ret, lastSend>>

----------------------------------------------------------------------------
(* The typed wrappers robot_mode() and safety_status() *)

\* output.split(' ')[1] fails on None (no split) and on a single token (no [1])
WrapperError(output) ==
    IF output = None THEN "AttributeError"
    ELSE IF Len(Split(output)) < 2 THEN "IndexError"
    ELSE "none"

\* mutant: the wrapper returns the label instead of the value
SecondToken_First(output) == Split(output)[1]

SecondToken(output) == Split(output)[2]

----------------------------------------------------------------------------
(* initialize(): one pass is lines 53-81; line 81 starts the next pass *)

\* a local that the current pass has not assigned yet
Unset == <<"unset">>

\* mutant: the condition left in the comment of line 62, true of NORMAL too
SafetyAction_RestartUnlessStop(status) ==
    IF Upper(status) = PROTECTIVE_STOP THEN "unlock" ELSE "restart"

\* mutant: the two tests in the other order
SafetyAction_RestartFirst(status) ==
    IF Upper(status) # NORMAL THEN "restart"
    ELSE IF Upper(status) = PROTECTIVE_STOP THEN "unlock"
    ELSE "nothing"

\* mutant: only the protective stop is recovered from
SafetyAction_UnlockOnly(status) ==
    IF Upper(status) = PROTECTIVE_STOP THEN "unlock" ELSE "nothing"

\* lines 58-65: which recovery the safety status asks for
SafetyAction(status) ==
    IF Upper(status) = PROTECTIVE_STOP THEN "unlock"
    ELSE IF Upper(status) # NORMAL THEN "restart"
    ELSE "nothing"

\* line 67
NeedsAutomatic(mode) == Upper(mode) = MANUAL

\* mutant: the safety status is not looked at
IsInitialized_ModeOnly(mode, status) == Upper(mode) = RUNNING

\* mutant: the decision of line 74 returns whatever was read
IsInitialized_Always(mode, status) == TRUE

\* line 74
IsInitialized(mode, status) == Upper(mode) = RUNNING /\ Upper(status) = NORMAL

\* mutant: every pass that does not return releases the brakes
NeedsBrakeRelease_Always(mode) == TRUE

\* line 77
NeedsBrakeRelease(mode) == Upper(mode) \in {POWER_OFF, BOOTING, POWER_ON, IDLE}

Logged(command) == passLog' = Append(passLog, command)

Raise(err) == pc' = "idle" /\ outcome' = err

StartInitialize ==
    /\ pc = "idle"
    /\ op' = "initialize"
    /\ pc' = "robot_mode"
    /\ outcome' = "running"
    /\ robot_mode' = Unset /\ operation_mode' = Unset
    /\ safety_status' = Unset /\ remote_control_status' = Unset
    /\ passLog' = <<>>
    /\ NoCall

\* line 53; a new pass has fresh locals
QueryRobotMode ==
    /\ pc = "robot_mode"
    /\ UNCHANGED op
    /\ Call(CmdRobotmode, MaxLateNested)
    /\ passLog' = <<CmdRobotmode>>
    /\ operation_mode' = Unset /\ safety_status' = Unset
    /\ remote_control_status' = Unset
    /\ IF WrapperError(ret') # "none"
       THEN Raise(WrapperError(ret')) /\ robot_mode' = Unset
       ELSE pc' = "operational_mode" /\ robot_mode' = SecondToken(ret')
                /\ UNCHANGED outcome

\* line 54
QueryOperationalMode ==
    /\ pc = "operational_mode"
    /\ UNCHANGED op
    /\ Call(CmdGetOperationalMode, MaxLateNested)
    /\ Logged(CmdGetOperationalMode)
    /\ operation_mode' = ret'
    /\ pc' = "safety_status"
    /\ UNCHANGED <<outcome, robot_mode, safety_status, remote_control_status>>

\* line 55
QuerySafetyStatus ==
    /\ pc = "safety_status"
    /\ UNCHANGED op
    /\ Call(CmdSafetystatus, MaxLateNested)
    /\ Logged(CmdSafetystatus)
    /\ IF WrapperError(ret') # "none"
       THEN Raise(WrapperError(ret')) /\ safety_status' = Unset
       ELSE pc' = "remote_control" /\ safety_status' = SecondToken(ret')
                /\ UNCHANGED outcome
    /\ UNCHANGED <<robot_mode, operation_mode, remote_control_status>>

\* line 56
QueryRemoteControl ==
    /\ pc = "remote_control"
    /\ UNCHANGED op
    /\ Call(CmdIsInRemoteControl, MaxLateNested)
    /\ Logged(CmdIsInRemoteControl)
    /\ remote_control_status' = ret'
    /\ pc' = "safety_branch"
    /\ UNCHANGED <<outcome, robot_mode, operation_mode, safety_status>>

locals == <<robot_mode, operation_mode, safety_status, remote_control_status>>

\* lines 58-64: unlock the protective stop, or close the popup before the restart
SafetyBranch ==
    /\ pc = "safety_branch"
    /\ UNCHANGED op
    /\ CASE SafetyAction(safety_status) = "unlock" ->
                Call(CmdUnlockProtectiveStop, MaxLateNested) /\ Logged(CmdUnlockProtectiveStop)
                /\ pc' = "mode_switch"
         [] SafetyAction(safety_status) = "restart" ->
                Call(CmdCloseSafetyPopup, MaxLateNested) /\ Logged(CmdCloseSafetyPopup)
                /\ pc' = "restart_safety"
         [] OTHER ->
                NoCall /\ UNCHANGED passLog /\ pc' = "mode_switch"
    /\ UNCHANGED <<outcome, locals>>

\* line 65, restart_safety() line 121
RestartSafetySend ==
    /\ pc = "restart_safety"
    /\ UNCHANGED op
    /\ Call(CmdRestartSafety, MaxLateNested) /\ Logged(CmdRestartSafety)
    /\ pc' = "restart_reconnect"
    /\ UNCHANGED <<outcome, locals>>

\* restart_safety() lines 122-124: disconnect(), then connect()
RestartSafetyReconnect ==
    /\ pc = "restart_reconnect"
    /\ UNCHANGED op
    /\ IF connection = "None"
       THEN Raise("AttributeError")
            /\ UNCHANGED <<connection, sockState, inflight>>
       ELSE /\ \E how \in ConnectOutcomes :
                LET s == Connect(Disconnect(Sock), how)
                IN  /\ connection' = s.connection
                    /\ sockState' = s.sockState
                    /\ inflight' = s.inflight
            /\ pc' = "restart_brake"
            /\ UNCHANGED outcome
    /\ UNCHANGED <<robotMode, safetyStatus, opMode, ret, lastSend, locals, passLog>>

\* restart_safety() line 125: brake_release()
RestartSafetyBrake ==
    /\ pc = "restart_brake"
    /\ UNCHANGED op
    /\ Call(CmdBrakeRelease, MaxLateNested) /\ Logged(CmdBrakeRelease)
    /\ pc' = "mode_switch"
    /\ UNCHANGED <<outcome, locals>>

\* lines 67-72
ModeSwitch ==
    /\ pc = "mode_switch"
    /\ UNCHANGED op
    /\ IF operation_mode = None
       THEN Raise("AttributeError") /\ NoCall /\ UNCHANGED passLog
       ELSE /\ IF NeedsAutomatic(operation_mode)
               THEN Call(CmdSetOperationalMode(automatic), MaxLateNested)
                    /\ Logged(CmdSetOperationalMode(automatic))
               ELSE NoCall /\ UNCHANGED passLog
            /\ pc' = "decide"
            /\ UNCHANGED outcome
    /\ UNCHANGED locals

\* lines 74-81: return, or release the brakes and run the next pass
Decide ==
    /\ pc = "decide"
    /\ UNCHANGED op
    /\ IF IsInitialized(robot_mode, safety_status)
       THEN /\ pc' = "idle" /\ outcome' = "returned"
            /\ NoCall /\ UNCHANGED passLog
       ELSE /\ IF NeedsBrakeRelease(robot_mode)
               THEN Call(CmdBrakeRelease, MaxLateNested) /\ Logged(CmdBrakeRelease)
               ELSE NoCall /\ UNCHANGED passLog
            /\ pc' = "robot_mode"
            /\ UNCHANGED outcome
    /\ UNCHANGED locals

----------------------------------------------------------------------------
(* Calls made by the user of the client between operations *)

\* the plain wrappers: they return what send_command returns
PlainCommands == {CmdGetOperationalMode, CmdBrakeRelease, CmdUnlockProtectiveStop}

CallSendCommand ==
    /\ pc = "idle"
    /\ \E command \in PlainCommands : Call(command, MaxLate)
    /\ op' = "send_command"
    /\ outcome' = "returned"
    /\ UNCHANGED <<pc, locals, passLog>>

\* robot_mode() and safety_status(), lines 83-87 and 128-131
CallTypedWrapper ==
    /\ pc = "idle"
    /\ \E command \in {CmdRobotmode, CmdSafetystatus} : Call(command, MaxLate)
    /\ op' = "typed_wrapper"
    /\ outcome' = IF WrapperError(ret') # "none" THEN WrapperError(ret')
                  ELSE "returned"
    /\ UNCHANGED <<pc, locals, passLog>>

\* disconnect(), lines 24-26
CallDisconnect ==
    /\ pc = "idle"
    /\ op' = "disconnect"
    /\ IF connection = "None"
       THEN outcome' = "AttributeError"
            /\ UNCHANGED <<connection, sockState, inflight>>
       ELSE /\ connection' = Disconnect(Sock).connection
            /\ sockState' = Disconnect(Sock).sockState
            /\ inflight' = Disconnect(Sock).inflight
            /\ outcome' = "returned"
    /\ UNCHANGED <<robotMode, safetyStatus, opMode, ret, lastSend, pc, locals,
                   passLog>>

----------------------------------------------------------------------------
(* The robot controller and its surroundings *)

RobotModes == {POWER_OFF, BOOTING, POWER_ON, IDLE, RUNNING, BACKDRIVE}
SafetyStatuses == {NORMAL, PROTECTIVE_STOP, FAULT}
OpModes == {MANUAL, AUTOMATIC}

\* a protective stop, a fault, or the operator turning the mode key
ControllerChange ==
    /\ pc = "idle"
    /\ \/ safetyStatus' \in SafetyStatuses \ {safetyStatus}
          /\ UNCHANGED <<robotMode, opMode>>
       \/ opMode' \in OpModes \ {opMode}
          /\ UNCHANGED <<robotMode, safetyStatus>>
    /\ UNCHANGED <<connection, sockState, inflight, ret, lastSend, op, pc, outcome,
                   locals, passLog>>

----------------------------------------------------------------------------
(* The dashboard specification *)

NoSend == [command |-> None, connectCalled |-> FALSE, connAtCall |-> "none",
           expected |-> None, error |-> FALSE, raised |-> "none"]

\* UR_DASHBOARD(): connection = None, then connect(); the robot is in any state
InitDashboard(modes, statuses) ==
    /\ \E how \in ConnectOutcomes :
        LET s == Connect([connection |-> "None", sockState |-> "none",
                          inflight |-> <<>>], how)
        IN  connection = s.connection /\ sockState = s.sockState
            /\ inflight = s.inflight
    /\ robotMode \in modes
    /\ safetyStatus \in statuses
    /\ opMode \in OpModes
    /\ ret = None
    /\ lastSend = NoSend
    /\ robot_mode = Unset /\ operation_mode = Unset
    /\ safety_status = Unset /\ remote_control_status = Unset
    /\ passLog = <<>>

\* no operation is running
AtRest == op = "construct" /\ pc = "idle" /\ outcome = "returned"

\* the parts of the state a specification does not use
NoClient ==
    /\ connection = "None" /\ sockState = "none" /\ inflight = <<>>
    /\ robotMode = RUNNING /\ safetyStatus = NORMAL /\ opMode = AUTOMATIC
    /\ ret = None /\ lastSend = NoSend
    /\ robot_mode = Unset /\ operation_mode = Unset
    /\ safety_status = Unset /\ remote_control_status = Unset
    /\ passLog = <<>>

NoResponse == buffer = None /\ processed = None

NoProgram ==
    /\ joints = [i \in 1..NumJoints |-> 0]
    /\ robot_current_joint_angles = [i \in 1..NumJoints |-> 0]
    /\ program_name = None
    /\ program_status = "none"
    /\ ready_status_count = 0
    /\ pollLog = <<>>

NoTask == task = [name |-> "none"] /\ hwLog = <<>> /\ caught = "none"

\* the client used call by call
Init ==
    /\ InitDashboard({IDLE, RUNNING}, SafetyStatuses) /\ AtRest
    /\ NoResponse /\ NoProgram /\ NoTask

OnlyDashboard == UNCHANGED <<responseVars, urpVars, taskVars>>

Next ==
    \/ CallSendCommand /\ OnlyDashboard
    \/ CallTypedWrapper /\ OnlyDashboard
    \/ CallDisconnect /\ OnlyDashboard
    \/ ControllerChange /\ OnlyDashboard

Spec == Init /\ [][Next]_vars

\* initialize() called on a freshly constructed client, again after it ends
InitInitialize ==
    /\ InitDashboard(RobotModes, SafetyStatuses) /\ AtRest
    /\ NoResponse /\ NoProgram /\ NoTask

NextInitialize ==
    \/ StartInitialize /\ OnlyDashboard
    \/ QueryRobotMode /\ OnlyDashboard
    \/ QueryOperationalMode /\ OnlyDashboard
    \/ QuerySafetyStatus /\ OnlyDashboard
    \/ QueryRemoteControl /\ OnlyDashboard
    \/ SafetyBranch /\ OnlyDashboard
    \/ RestartSafetySend /\ OnlyDashboard
    \/ RestartSafetyReconnect /\ OnlyDashboard
    \/ RestartSafetyBrake /\ OnlyDashboard
    \/ ModeSwitch /\ OnlyDashboard
    \/ Decide /\ OnlyDashboard
    \/ ControllerChange /\ OnlyDashboard

SpecInitialize == InitInitialize /\ [][NextInitialize]_vars

----------------------------------------------------------------------------
(* initialize as a running program: a call that has started executes its next
   statement; nothing makes the caller call it or the controller change *)

PassPositions == {"robot_mode", "operational_mode", "safety_status",
                  "remote_control", "safety_branch", "restart_safety",
                  "restart_reconnect", "restart_brake", "mode_switch", "decide"}

\* the running call leaves its position: every statement of a pass moves on to
\* another position or ends the call, and no other action is enabled meanwhile
Advance == pc \in PassPositions /\ pc' \in (PassPositions \cup {"idle"}) \ {pc}

SpecInitializeFair == SpecInitialize /\ WF_pc(Advance)

-----------------------------------------------------------------------------
(* initialize against a cooperative robot: every send_command of the call gets
   its reply, a reconnect succeeds, and the controller honours the recovery
   commands (unlock and restart bring the safety status to NORMAL, a brake
   release brings the robot mode to RUNNING) *)

Honoured ==
    /\ ~lastSend'.error
    /\ lastSend'.expected # None /\ ret' = Strip(lastSend'.expected)
    /\ lastSend'.command \in {CmdUnlockProtectiveStop, CmdRestartSafety}
            => safetyStatus' = NORMAL
    /\ lastSend'.command = CmdBrakeRelease => robotMode' = RUNNING

Cooperative ==
    /\ passLog' # passLog /\ passLog' # <<>> => Honoured
    /\ pc = "restart_reconnect" => sockState' = "connected"

InitCooperative == InitInitialize /\ sockState = "connected"

NextCooperative ==
    \/ StartInitialize /\ OnlyDashboard /\ Cooperative
    \/ QueryRobotMode /\ OnlyDashboard /\ Cooperative
    \/ QueryOperationalMode /\ OnlyDashboard /\ Cooperative
    \/ QuerySafetyStatus /\ OnlyDashboard /\ Cooperative
    \/ QueryRemoteControl /\ OnlyDashboard /\ Cooperative
    \/ SafetyBranch /\ OnlyDashboard /\ Cooperative
    \/ RestartSafetySend /\ OnlyDashboard /\ Cooperative
    \/ RestartSafetyReconnect /\ OnlyDashboard /\ Cooperative
    \/ RestartSafetyBrake /\ OnlyDashboard /\ Cooperative
    \/ ModeSwitch /\ OnlyDashboard /\ Cooperative
    \/ Decide /\ OnlyDashboard /\ Cooperative
    \/ ControllerChange /\ OnlyDashboard

SpecCooperative == InitCooperative /\ [][NextCooperative]_vars /\ WF_pc(Advance)

-----------------------------------------------------------------------------

(* The response processing of send_command on an arbitrary received buffer *)

\* lines the peer may put into the buffer, the banner among them
BufferLines == {Line(Banner), Line(<<"R","o","b","o","t","m","o","d","e",":"," ","R","U","N","N","I","N","G">>), Line(<<"A","U","T","O","M","A","T","I","C">>),
                Line(<<"S","a","f","e","t","y","s","t","a","t","u","s",":"," ","N","O","R","M","A","L">>)}

Buffers ==
    {Flatten(lines) : lines \in UNION {[1..n -> BufferLines] : n \in 1..MaxLines}}

\* lines 38-46 of send_command applied to the buffer recv returned
ProcessBuffer ==
    /\ pc = "received"
    /\ processed' = ProcessResponse(buffer)
    /\ pc' = "processed"
    /\ UNCHANGED <<connection, sockState, inflight, robotMode, safetyStatus, opMode,
                   ret, lastSend, op, outcome, locals, passLog, buffer>>
    /\ UNCHANGED <<urpVars, taskVars>>

\* send_command at line 38, with any buffer in hand
InitResponse ==
    /\ NoClient /\ NoProgram /\ NoTask
    /\ op = "send_command" /\ pc = "received" /\ outcome = "running"
    /\ buffer \in Buffers
    /\ processed = None

SpecResponse == InitResponse /\ [][ProcessBuffer]_vars

----------------------------------------------------------------------------
(* The typed wrappers on any text send_command can return, next to initialize *)

\* what send_command can hand to a wrapper: None after a caught exception, the
\* empty text, and the processing of any received buffer
Returned == {None, <<>>} \cup {ProcessResponse(b) : b \in Buffers}

\* robot_mode() at lines 86-87, send_command having returned ret
RobotModeReturns ==
    /\ op = "robot_mode" /\ pc = "returned"
    /\ IF WrapperError(ret) # "none"
       THEN Raise(WrapperError(ret)) /\ UNCHANGED robot_mode
       ELSE pc' = "idle" /\ outcome' = "returned"
                /\ robot_mode' = SecondToken(ret)
    /\ NoCall
    /\ UNCHANGED <<op, operation_mode, safety_status, remote_control_status,
                   passLog>>

\* safety_status() at lines 130-131, send_command having returned ret
SafetyStatusReturns ==
    /\ op = "safety_status" /\ pc = "returned"
    /\ IF WrapperError(ret) # "none"
       THEN Raise(WrapperError(ret)) /\ UNCHANGED safety_status
       ELSE pc' = "idle" /\ outcome' = "returned"
                /\ safety_status' = SecondToken(ret)
    /\ NoCall
    /\ UNCHANGED <<op, operation_mode, robot_mode, remote_control_status,
                   passLog>>

\* a wrapper at its return statement, with any returned text in hand
InitReturned ==
    /\ connection = "None" /\ sockState = "none" /\ inflight = <<>>
    /\ robotMode = RUNNING /\ safetyStatus = NORMAL /\ opMode = AUTOMATIC
    /\ ret \in Returned /\ lastSend = NoSend
    /\ robot_mode = Unset /\ operation_mode = Unset
    /\ safety_status = Unset /\ remote_control_status = Unset
    /\ passLog = <<>>
    /\ op \in {"robot_mode", "safety_status"}
    /\ pc = "returned" /\ outcome = "running"
    /\ NoResponse /\ NoProgram /\ NoTask

InitWrappers == InitInitialize \/ InitReturned

NextWrappers ==
    \/ RobotModeReturns /\ OnlyDashboard
    \/ SafetyStatusReturns /\ OnlyDashboard
    \/ NextInitialize

SpecWrappers == InitWrappers /\ [][NextWrappers]_vars

-----------------------------------------------------------------------------

(* Properties of initialize, checked under SpecInitialize *)

Queries == <<CmdRobotmode, CmdGetOperationalMode, CmdSafetystatus,
             CmdIsInRemoteControl>>

Mutating == {CmdUnlockProtectiveStop, CmdCloseSafetyPopup, CmdRestartSafety,
             CmdBrakeRelease, CmdSetOperationalMode(automatic)}

\* the four queries of the current pass have returned
QueriesDone == op = "initialize" /\ remote_control_status # Unset

\* the current pass is past its four queries and has not started the next pass
AfterQueries == pc \in {"safety_branch", "mode_switch", "decide", "idle"}

\* C1 as stated: whenever the four queries of a pass report robot mode RUNNING
\* and safety status NORMAL, whatever the operational-mode and remote-control
\* replies are (MANUAL included), the pass sends nothing but the four queries
\* and initialize returns in that pass.
C1_IdempotentForEveryMode ==
    (QueriesDone /\ robot_mode = RUNNING /\ safety_status = NORMAL
        /\ operation_mode # None)
    => /\ passLog = Queries
       /\ AfterQueries
       /\ pc = "idle" => outcome = "returned"

\* C1 amended: whenever the four queries of a pass report robot mode RUNNING and
\* safety status NORMAL and the operational-mode reply is anything but MANUAL,
\* the pass sends nothing but the four queries (no mutating command) and
\* initialize returns in that pass.
C1_IdempotentUnlessManual ==
    (QueriesDone /\ robot_mode = RUNNING /\ safety_status = NORMAL
        /\ operation_mode # None /\ Upper(operation_mode) # MANUAL)
    => /\ passLog = Queries
       /\ \A i \in 1..Len(passLog) : passLog[i] \notin Mutating
       /\ AfterQueries
       /\ pc = "idle" => outcome = "returned"

\* a ready robot in AUTOMATIC mode: initialize has returned after four queries
C1_Witness ==
    /\ QueriesDone /\ robot_mode = RUNNING /\ safety_status = NORMAL
    /\ operation_mode = AUTOMATIC
    /\ pc = "idle" /\ outcome = "returned" /\ passLog = Queries

\* C2: in a pass whose safety-status query returned PROTECTIVE_STOP, the first
\* command after the four queries is 'unlock protective stop', it is sent before
\* the pass goes on, and the pass sends neither 'close safety popup' nor
\* 'restart safety'.
C2_ProtectiveStopUnlocks ==
    (QueriesDone /\ safety_status = PROTECTIVE_STOP)
    => /\ SubSeq(passLog, 1, 4) = Queries
       /\ pc # "safety_branch"
            => Len(passLog) >= 5 /\ passLog[5] = CmdUnlockProtectiveStop
       /\ \A i \in 1..Len(passLog) :
            passLog[i] \notin {CmdCloseSafetyPopup, CmdRestartSafety}

\* a pass that saw PROTECTIVE_STOP has sent the unlock and reached its decision
C2_Witness ==
    /\ QueriesDone /\ safety_status = PROTECTIVE_STOP /\ pc = "decide"
    /\ Len(passLog) >= 5 /\ passLog[5] = CmdUnlockProtectiveStop

\* C3: initialize returns only from a pass whose own four queries reported
\* RUNNING and NORMAL; a pass that reaches its decision (line 74) with anything
\* else starts a new pass, which begins with the four queries again.
C3_ReturnsOnlyWhenReady ==
    /\ []((op = "initialize" /\ outcome = "returned")
            => /\ robot_mode = RUNNING /\ safety_status = NORMAL
               /\ SubSeq(passLog, 1, 4) = Queries)
    /\ []((op = "initialize" /\ pc \in {"safety_branch", "mode_switch", "decide"})
            => SubSeq(passLog, 1, 4) = Queries)
    /\ [][(pc = "decide" /\ pc' # "decide")
            => IF robot_mode = RUNNING /\ safety_status = NORMAL
               THEN pc' = "idle" /\ outcome' = "returned"
               ELSE pc' = "robot_mode" /\ outcome' = "running"]_vars

\* a pass that did not see RUNNING and NORMAL has ended and the next pass is
\* about to send its first query
C3_Witness ==
    /\ op = "initialize" /\ pc = "robot_mode" /\ outcome = "running"
    /\ QueriesDone
    /\ ~(robot_mode = RUNNING /\ safety_status = NORMAL)

----------------------------------------------------------------------------
(* Properties of the client, checked under Spec *)

SendReturned == op \in {"send_command", "typed_wrapper"}

\* C5 as stated: the text a call of send_command returns is the controller's
\* reply to the command this call sent, never the banner alone (an empty text)
\* and never the reply to an earlier command.
C5_ReturnsOwnReply ==
    (SendReturned /\ ret # None)
    => lastSend.expected # None /\ ret = Strip(lastSend.expected)

\* C6: send_command never propagates an exception; on a socket error it
\* returns None, and otherwise it returns a text without leading or trailing
\* whitespace.
C6_NeverPropagates ==
    lastSend.command # None
    => /\ lastSend.raised = "none"
       /\ lastSend.error => ret = None
       /\ ~lastSend.error
            => /\ ret # None
               /\ ret # <<>> => ~IsSpace(ret[1]) /\ ~IsSpace(ret[Len(ret)])

\* a send_command that met a socket error on an open connection returned None
C6_Witness ==
    /\ SendReturned /\ lastSend.error /\ lastSend.connAtCall = "connected"
    /\ ret = None /\ outcome = "returned"

\* C7 as stated: after a connect() that failed to open the TCP connection the
\* connection field is None, so a later send_command calls connect() again.
C7_FailedConnectLeavesNone ==
    /\ sockState = "unconnected" => connection = "None"
    /\ (SendReturned /\ lastSend.connAtCall = "unconnected")
            => lastSend.connectCalled

\* C8 as stated: a send_command that follows a failed send or a disconnect()
\* opens a new connection before sending.
C8_ReconnectsAfterFailure ==
    (SendReturned /\ lastSend.connAtCall \in {"broken", "closed"})
    => lastSend.connectCalled

----------------------------------------------------------------------------
(* Properties of the response processing, checked under SpecResponse *)

\* the buffer without the first occurrence of the banner
WithoutBanner(b) ==
    LET at == Min(Occurrences(b, Banner))
    IN  SubSeq(b, 1, at - 1) \o DropFirst(b, at + Len(Banner) - 1)

\* C4 as stated: for every received buffer that contains the banner, at any
\* position, the returned text does not contain the banner and still contains
\* the rest of the response.
C4_BannerRemovedAnywhere ==
    (pc = "processed" /\ Contains(buffer, Banner))
    => /\ ~Contains(processed, Banner)
       /\ Contains(processed, Strip(WithoutBanner(buffer)))

----------------------------------------------------------------------------
(* UR.get_movement_state and UR.run_urp_program (ur_driver.py) *)

\* '%.2f' % value for an angle of a units of 4 mrad: the nearest hundredth of a
\* radian (4a is even, so no value lies halfway), kept as a count of hundredths
Format2(a) == (4 * a + 5) \div 10

FormatAll(angles) == [i \in 1..Len(angles) |-> Format2(angles[i])]

Angles == [1..NumJoints -> 0..MaxAngle]

\* lines 85-96: READY when the formatted angles equal those of the previous poll
MovementState(previous, current) ==
    IF previous = FormatAll(current) THEN "READY" ELSE "BUSY"

\* line 404: the number of READY polls in a row that ends the wait
ReadyPolls == 6

\* mutant: a BUSY poll leaves the counter as it is
CountAfter_NoReset(count, state) == IF state = "READY" THEN count + 1 ELSE count

\* mutant: the counter counts every poll, a timeout of six polls
CountAfter_EveryPoll(count, state) == count + 1

\* lines 402-407
CountAfter(count, state) == IF state = "READY" THEN count + 1 ELSE 0

ProgramNames == {<<"a",".","u","r","p">>}

\* lines 378-388: the argument check, the optional upload
StartRunUrp ==
    /\ pc = "idle"
    /\ op' = "run_urp_program"
    /\ \E name \in ProgramNames \cup {None, <<>>}, transfer \in BOOLEAN :
        /\ program_name' = name
        /\ IF name = None \/ name = <<>>
           THEN pc' = "idle" /\ outcome' = "ValueError"
           ELSE pc' = (IF transfer THEN "transfer" ELSE "load")
                /\ outcome' = "running"
    /\ program_status' = "none"
    /\ ready_status_count' = 0
    /\ pollLog' = <<>>
    /\ NoCall
    /\ UNCHANGED <<locals, passLog, joints, robot_current_joint_angles>>

\* lines 386-388: the dashboard uploads the program file
TransferProgram ==
    /\ pc = "transfer"
    /\ pc' = "load"
    /\ NoCall
    /\ UNCHANGED <<op, outcome, locals, passLog, urpVars>>

\* lines 390-391
LoadProgram ==
    /\ pc = "load"
    /\ Call(CmdLoad(<<"/","p","r","o","g","r","a","m","s","/">> \o program_name), MaxLateNested)
    /\ pc' = "play"
    /\ UNCHANGED <<op, outcome, locals, passLog, urpVars>>

\* lines 392-400
RunProgram ==
    /\ pc = "play"
    /\ Call(CmdPlay, MaxLateNested)
    /\ pc' = "poll"
    /\ program_status' = "BUSY"
    /\ ready_status_count' = 0
    /\ UNCHANGED <<op, outcome, locals, passLog, joints,
                   robot_current_joint_angles, program_name, pollLog>>

\* lines 401-412: one turn of the loop, get_movement_state included
Poll ==
    /\ pc = "poll"
    /\ \E state \in {MovementState(robot_current_joint_angles, joints)} :
       \E count \in {CountAfter(ready_status_count, state)} :
        /\ robot_current_joint_angles' = FormatAll(joints)
        /\ ready_status_count' = count
        /\ pollLog' = IF Len(pollLog) < ReadyPolls THEN Append(pollLog, state)
                      ELSE Append(Tail(pollLog), state)
        /\ IF state = "READY" /\ count >= ReadyPolls
           THEN program_status' = "READY" /\ pc' = "idle" /\ outcome' = "returned"
           ELSE program_status' = "BUSY" /\ pc' = "poll" /\ UNCHANGED outcome
    /\ NoCall
    /\ UNCHANGED <<op, locals, passLog, joints, program_name>>

\* the arm moves, driven by the program or by anything else
ArmMoves ==
    /\ joints' \in Angles \ {joints}
    /\ UNCHANGED <<dashVars, robot_current_joint_angles, program_name,
                   program_status, ready_status_count, pollLog>>

\* UR(): the dashboard client, then get_movement_state() once (line 82)
InitProgram ==
    /\ InitDashboard({RUNNING}, {NORMAL}) /\ AtRest
    /\ joints \in Angles
    /\ \E at \in Angles : robot_current_joint_angles = FormatAll(at)
    /\ program_name = None
    /\ program_status = "none"
    /\ ready_status_count = 0
    /\ pollLog = <<>>
    /\ NoResponse /\ NoTask

NextProgram ==
    \/ StartRunUrp /\ UNCHANGED <<responseVars, taskVars>>
    \/ TransferProgram /\ UNCHANGED <<responseVars, taskVars>>
    \/ LoadProgram /\ UNCHANGED <<responseVars, taskVars>>
    \/ RunProgram /\ UNCHANGED <<responseVars, taskVars>>
    \/ Poll /\ UNCHANGED <<responseVars, taskVars>>
    \/ ArmMoves /\ UNCHANGED <<responseVars, taskVars>>

SpecProgram == InitProgram /\ [][NextProgram]_vars

----------------------------------------------------------------------------
(* run_urp_program as a running program: the loop of lines 401-408 takes its
   next turn; nothing makes the arm move or stop *)

SpecProgramFair ==
    SpecProgram /\ WF_vars(Poll /\ UNCHANGED <<responseVars, taskVars>>)

----------------------------------------------------------------------------

(* Properties of run_urp_program, checked under SpecProgram *)

AllReady(log) == \A i \in 1..Len(log) : log[i] = "READY"

\* the number of READY polls at the end of the log
ReadyTail(log) ==
    Max({n \in 0..Len(log) : AllReady(SubSeq(log, Len(log) - n + 1, Len(log)))})

\* C9: run_urp_program reports the program finished only after six polls in a
\* row returned READY, a poll returns READY only when the formatted joint angles
\* equal those of the poll before, and a BUSY poll sets the counter back to
\* zero, so the counter never counts across a change.
C9_SixReadyPollsInARow ==
    /\ [](op = "run_urp_program" /\ program_status = "READY"
            => Len(pollLog) = 6 /\ AllReady(pollLog))
    /\ [](op = "run_urp_program" /\ pc = "poll"
            => ready_status_count = ReadyTail(pollLog) /\ ready_status_count < 6)
    /\ [][(pc = "poll" /\ joints' = joints)
            => /\ pollLog'[Len(pollLog')] = "READY"
                    <=> \A i \in 1..NumJoints :
                            Format2(joints[i]) = robot_current_joint_angles[i]
               /\ pollLog'[Len(pollLog')] = "BUSY" => ready_status_count' = 0]_vars

\* the program was reported finished after a change, then six READY polls
C9_Witness ==
    /\ op = "run_urp_program" /\ program_status = "READY" /\ outcome = "returned"
    /\ ready_status_count = 6

----------------------------------------------------------------------------
(* The task facade: UR.home, UR.gripper_transfer, and the gripper controller *)
(* calls it makes.  Lengths are in mm, angles in mrad.                      *)

\* `not x` for a list argument: None and the empty list alike
Falsy(x) == x = None \/ x = <<>>

Arm(cmd, arg) == [dev |-> "arm", cmd |-> cmd, arg |-> arg]
Gripper(cmd, arg) == [dev |-> "gripper", cmd |-> cmd, arg |-> arg]

\* UR.home, lines 98-110: a joint move to the given or to the built-in home
HomeMove(home) ==
    Arm("movej", IF Falsy(home) THEN <<-1356, -2541, 1845, -892, -1560, 3340>>
                 ELSE home)

\* FingerGripperController.__init__, lines 26-29
NewController ==
    [gripper_close |-> 130, griper_open |-> 0, gripper_speed |-> 150,
     gripper_force |-> 0]

GripperOutcomes == {"active", "inactive", "connect_fails", "activate_fails"}

\* connect_gripper, lines 42-62.  An error of the connection is caught and
\* printed; an error of the activation (the else branch) is not caught.
ConnectGripper(c, how) ==
    CASE how = "connect_fails" ->
            [log |-> <<Gripper("connect_failed", <<>>)>>, raised |-> FALSE]
      [] how = "active" ->
            [log |-> <<Gripper("connect", <<>>)>>, raised |-> FALSE]
      [] how = "inactive" ->
            [log |-> <<Gripper("connect", <<>>), Gripper("activate", <<>>),
                       Gripper("move", <<c.griper_open, c.gripper_speed,
                                         c.gripper_force>>)>>,
             raised |-> FALSE]
      [] OTHER ->
            [log |-> <<Gripper("connect", <<>>), Gripper("activate", <<>>)>>,
             raised |-> TRUE]

\* an optional number: None, or a value
Absent == [given |-> FALSE]
Some(v) == [given |-> TRUE, value |-> v]

\* str.lower()
Lower(s) ==
    [i \in 1..Len(s) |->
        IF \E j \in 1..Len(UpperCase) : UpperCase[j] = s[i]
        THEN LowerCase[CHOOSE j \in 1..Len(UpperCase) : UpperCase[j] = s[i]]
        ELSE s[i]]

\* pick lines 83-96, place lines 120-133: the coordinate the approach is along,
\* counted from 1 (x is 1, y is 2, z is 3); 0 when no branch assigns axis
AxisIndex(approach_axis) ==
    IF Falsy(approach_axis) \/ Lower(approach_axis) = <<"z">> THEN 3
    ELSE IF Lower(approach_axis) \in {<<"y">>, <<"-", "y">>} THEN 2
    ELSE IF Lower(approach_axis) \in {<<"x">>, <<"-", "x">>} THEN 1
    ELSE 0

\* mutant: the distance is never negated
Negated_Never(approach_axis) == FALSE

\* lines 89-91 and 94-96: the branches that negate the approach distance
Negated(approach_axis) ==
    ~Falsy(approach_axis) /\ Lower(approach_axis) \in {<<"-", "y">>, <<"-", "x">>}

\* the pose moved by the approach distance along the approach axis
Shifted(goal, approach_axis, approach_distance) ==
    [goal EXCEPT ![AxisIndex(approach_axis)] =
        IF Negated(approach_axis) THEN @ - approach_distance.value
        ELSE @ + approach_distance.value]

\* mutant: the above pose is the caller's list itself, changed in place
AboveGoal_InPlace(goal, approach_axis, approach_distance) ==
    IF ~approach_distance.given \/ AxisIndex(approach_axis) = 0
    THEN [raised |-> "TypeError", goal |-> goal]
    ELSE [raised |-> "none",
          pose |-> Shifted(goal, approach_axis, approach_distance),
          goal |-> Shifted(goal, approach_axis, approach_distance)]

\* lines 83-99: the above pose, computed on a copy of the goal (deepcopy, line
\* 98); goal is the caller's list after line 99.  Negating or adding a
\* distance of None raises TypeError, and so does indexing with an axis of
\* None.
AboveGoal(goal, approach_axis, approach_distance) ==
    IF ~approach_distance.given \/ AxisIndex(approach_axis) = 0
    THEN [raised |-> "TypeError", goal |-> goal]
    ELSE [raised |-> "none",
          pose |-> Shifted(goal, approach_axis, approach_distance),
          goal |-> goal]

\* mutant: the gripper is actuated at the above pose
Steps_GripFirst(above, goal, position, c) ==
    <<Arm("movel", above),
      Gripper("move", <<position, c.gripper_speed, c.gripper_force>>),
      Arm("movel", goal), Arm("movel", above)>>

\* pick lines 101-111, place lines 138-148
Steps(above, goal, position, c) ==
    <<Arm("movel", above), Arm("movel", goal),
      Gripper("move", <<position, c.gripper_speed, c.gripper_force>>),
      Arm("movel", above)>>

\* the steps of which the one numbered fails (if any) raises
Run(steps, fails) ==
    IF fails \in 1..Len(steps)
    THEN [log |-> SubSeq(steps, 1, fails),
          outcome |-> IF steps[fails].dev = "arm" THEN "RobotException"
                      ELSE "OSError"]
    ELSE [log |-> steps, outcome |-> "returned"]

\* FingerGripperController.pick, lines 76-111, on the controller c
Pick(c, pick_goal, approach_axis, approach_distance, fails) ==
    IF Falsy(pick_goal)
    THEN [log |-> <<>>, outcome |-> "Exception", goal |-> pick_goal]
    ELSE
        LET above == AboveGoal(pick_goal, approach_axis, approach_distance)
        IN  IF above.raised # "none"
            THEN [log |-> <<>>, outcome |-> above.raised, goal |-> above.goal]
            ELSE \* the moves read the caller's list as it is after line 99
                 LET ran == Run(Steps(above.pose, above.goal, c.gripper_close, c), fails)
                 IN  [log |-> ran.log, outcome |-> ran.outcome, goal |-> above.goal]

\* FingerGripperController.place, lines 114-148: it reads griper_open
Place(c, place_goal, approach_axis, approach_distance, fails) ==
    IF Falsy(place_goal)
    THEN [log |-> <<>>, outcome |-> "Exception", goal |-> place_goal]
    ELSE
        LET above == AboveGoal(place_goal, approach_axis, approach_distance)
        IN  IF above.raised # "none"
            THEN [log |-> <<>>, outcome |-> above.raised, goal |-> above.goal]
            ELSE \* the moves read the caller's list as it is after line 99
                 LET ran == Run(Steps(above.pose, above.goal, c.griper_open, c), fails)
                 IN  [log |-> ran.log, outcome |-> ran.outcome, goal |-> above.goal]

\* FingerGripperController.transfer, lines 150-156; fails numbers the steps of
\* pick (1 to 4) and of place (5 to 8)
Transfer(c, source, target, source_approach_axis, target_approach_axis, source_approach_distance, target_approach_distance, fails) ==
    LET picked == Pick(c, source, source_approach_axis, source_approach_distance, fails)
        placed == Place(c, target, target_approach_axis, target_approach_distance, fails - 4)
    IN  IF picked.outcome # "returned" THEN picked
        ELSE [log |-> picked.log \o placed.log, outcome |-> placed.outcome]

\* gripper_transfer lines 144-147: the attributes the overrides assign; a
\* position of 0 or None assigns nothing
Override(c, gripper_open, gripper_close) ==
    LET closed == IF gripper_close # 0 THEN [c EXCEPT !.gripper_close = gripper_close]
                  ELSE c
    IN  IF gripper_open # 0 THEN [gripper_open |-> gripper_open] @@ closed ELSE closed

\* the parameters of FingerGripperController.transfer, line 150
TransferParameters ==
    {"source", "target", "source_approach_axis", "target_approach_axis",
     "source_approach_distance", "target_approach_distance"}

\* the keywords gripper_transfer passes to it, line 149
TransferKeywords == TransferParameters \cup {"home"}

\* mutant: only the source is looked at
MissingEndpoint_SourceOnly(source, target) == Falsy(source)

\* line 135
MissingEndpoint(source, target) == Falsy(source) \/ Falsy(target)

ArmOutcomes == {"ok", "first_move_fails", "last_move_fails"}

\* gripper_transfer, lines 131-158, for arguments a.  first and second are the
\* outcomes of the two connect_gripper calls (the constructor's and line 142),
\* arm says whether a home move raises.
GripperTransfer(a, first, second, arm) ==
    IF MissingEndpoint(a.source, a.target)
    THEN [log |-> <<>>, outcome |-> "Exception", caught |-> "none"]
    ELSE IF arm = "first_move_fails"
    THEN [log |-> <<HomeMove(a.home)>>, outcome |-> "RobotException",
          caught |-> "none"]
    ELSE
        LET made  == ConnectGripper(NewController, first)
            again == ConnectGripper(NewController, second)
            c     == Override(NewController, a.gripper_open, a.gripper_close)
            moved == Transfer(c, a.source, a.target, a.source_approach_axis,
                              a.target_approach_axis, a.source_approach_distance,
                              a.target_approach_distance, 0)
            \* line 149 raises TypeError unless every keyword is a parameter,
            \* so nothing after line 142 reaches the arm or the gripper
            tried == IF again.raised \/ ~(TransferKeywords \subseteq TransferParameters)
                     THEN made.log \o again.log
                     ELSE IF moved.outcome # "returned"
                     THEN made.log \o again.log \o moved.log
                     ELSE made.log \o again.log \o moved.log
                          \o <<Gripper("disconnect", <<>>)>>
        IN  IF made.raised
            \* the constructor raised: line 157 finds no gripper_controller
            THEN [log |-> <<HomeMove(a.home)>> \o made.log,
                  outcome |-> "UnboundLocalError", caught |-> "OSError"]
            ELSE [log |-> <<HomeMove(a.home)>> \o tried
                          \o <<Gripper("disconnect", <<>>), HomeMove(a.home)>>,
                  outcome |-> IF arm = "last_move_fails" THEN "RobotException"
                              ELSE "returned",
                  caught |-> IF again.raised THEN "OSError"
                             ELSE IF ~(TransferKeywords \subseteq TransferParameters)
                             THEN "TypeError"
                             ELSE IF moved.outcome # "returned" THEN moved.outcome
                             ELSE "none"]

\* the methods FingerGripperController defines (gripper_controller.py 9-156)
ControllerMethods ==
    {"connect_gripper", "disconnect_gripper", "pick", "place", "transfer"}

\* statements of a task body that are not commands: the call of a controller
\* method by name, the use of a module-level name, an exception already raised
MethodCall(name) == [dev |-> "call", cmd |-> name, arg |-> <<>>]
GlobalName(name) == [dev |-> "global", cmd |-> name, arg |-> <<>>]
Raised(err) == [dev |-> "raise", cmd |-> err, arg |-> <<>>]

Hardware(e) == e.dev \in {"arm", "gripper"}

\* the exception a statement raises when it does
Error(e) ==
    CASE e.dev = "raise" -> e.cmd
      [] e.dev = "call" -> "AttributeError"
      [] e.dev = "global" -> "NameError"
      [] e.dev = "arm" -> "RobotException"
      [] OTHER -> "OSError"

\* the commands of a pick or place called inside a task body, and its error
Inline(r) ==
    IF r.outcome = "returned" THEN r.log ELSE r.log \o <<Raised(r.outcome)>>

\* above = deepcopy(pose); above[2] += mm; movel(above)
MoveAbove(pose, mm) ==
    IF Falsy(pose) THEN <<Raised("TypeError")>>
    ELSE <<Arm("movel", [pose EXCEPT ![3] = @ + mm])>>

MoveTo(pose) ==
    IF Falsy(pose) THEN <<Raised("RobotException")>> ELSE <<Arm("movel", pose)>>

\* A task of the shape "home; try: controller, connect, body; except: print;
\* finally: cleanup".  The body runs up to its first statement that raises: a
\* method the controller does not define (AttributeError), a module-level name
\* that exists only when ur_driver.py runs as a script (NameError), an error
\* raised inside pick or place, or the command numbered fails.
Guarded(home, first, second, arm, body, cleanup, fails, script) ==
    IF arm = "first_move_fails"
    THEN [log |-> <<HomeMove(home)>>, outcome |-> "RobotException",
          caught |-> "none"]
    ELSE
        LET made  == ConnectGripper(NewController, first)
            again == ConnectGripper(NewController, second)
            bad   == {i \in 1..Len(body) :
                        \/ body[i].dev = "raise"
                        \/ body[i].dev = "call" /\ body[i].cmd \notin ControllerMethods
                        \/ body[i].dev = "global" /\ ~script
                        \/ Hardware(body[i]) /\ i = fails}
            ran   == IF bad = {} THEN body ELSE SubSeq(body, 1, Min(bad))
        IN  IF made.raised
            THEN [log |-> <<HomeMove(home)>> \o made.log,
                  outcome |-> IF cleanup = <<>> THEN "returned"
                              ELSE "UnboundLocalError",
                  caught |-> "OSError"]
            ELSE IF again.raised
            THEN [log |-> <<HomeMove(home)>> \o made.log \o again.log \o cleanup,
                  outcome |-> "returned", caught |-> "OSError"]
            ELSE [log |-> <<HomeMove(home)>> \o made.log \o again.log
                          \o SelectSeq(ran, Hardware) \o cleanup,
                  outcome |-> "returned",
                  caught |-> IF bad = {} THEN "none" ELSE Error(body[Min(bad)])]

\* the pose the script at the end of ur_driver.py binds to hex_key (line 438)
HexKey == <<401, -199, 219, 3137, -9, -1>>

\* gripper_screw_transfer, lines 160-208
GripperScrewTransfer(a, first, second, arm, fails, script) ==
    LET c == Override(NewController, a.gripper_open, a.gripper_close)
    IN  Guarded(a.home, first, second, arm,
                Inline(Pick(c, a.screwdriver_loc, <<"z">>, Some(50), 0))
                \o <<HomeMove(a.home)>>
                \o MoveAbove(a.screw_loc, 60) \o MoveTo(a.screw_loc)
                \o MoveAbove(a.screw_loc, 60)
                \o MoveAbove(a.target, 30) \o MoveTo(a.target)
                \o <<Arm("speedl_tool", <<0, 0, 0, 0, 0, 3140>>),
                     Arm("translate_tool", <<0, 0, -30>>), HomeMove(a.home),
                     GlobalName("hex_key")>>
                \o Inline(Place(c, HexKey, <<"z">>, Some(50), 0))
                \o <<HomeMove(a.home)>>,
                <<Gripper("disconnect", <<>>)>>, fails, script)

\* remove_cap, lines 214-246: no finally branch
RemoveCap(a, first, second, arm, fails, script) ==
    LET c == Override(NewController, a.gripper_open, a.gripper_close)
    IN  Guarded(a.home, first, second, arm,
                <<MethodCall("open_gripper")>>
                \o MoveAbove(a.source, 60) \o MoveTo(a.source)
                \o <<MethodCall("close_gripper"),
                     Arm("speedl_tool", <<0, 0, -1, 0, 0, -3140>>),
                     Arm("translate_tool", <<0, 0, -30>>), HomeMove(a.home)>>
                \o Inline(Place(c, a.target, <<"z">>, Some(50), 0))
                \o <<HomeMove(a.home)>>,
                <<>>, fails, script)

\* place_cap, lines 248-282: no finally branch
PlaceCap(a, first, second, arm, fails, script) ==
    LET c == Override(NewController, a.gripper_open, a.gripper_close)
    IN  Guarded(a.home, first, second, arm,
                Inline(Pick(c, a.source, <<"z">>, Some(50), 0))
                \o <<HomeMove(a.home)>>
                \o MoveAbove(a.target, 60) \o MoveTo(a.target)
                \o <<Arm("speedl_tool", <<0, 0, 0, 0, 0, 3140>>),
                     MethodCall("open_gripper"),
                     Arm("translate_tool", <<0, 0, -30>>), HomeMove(a.home)>>,
                <<>>, fails, script)

\* the home pose a caller passes, or none
Homes == {None, <<543, -1694, -730, -2290, 1568, -1023>>}

Poses == {<<100, 200, 300, 0, 0, 0>>, <<438, -136, 220, 3138, -9, -1>>}

CallGripperTransfer ==
    /\ pc = "idle" /\ task.name = "none"
    /\ \E home \in Homes,
          source \in Poses \cup {None, <<>>},
          target \in Poses \cup {None, <<>>},
          axis \in {None, <<"y">>}, distance \in {Absent, Some(50)},
          gripper_open \in {0, 190}, gripper_close \in {0, 240},
          first \in GripperOutcomes, second \in GripperOutcomes,
          arm \in ArmOutcomes :
        LET a == [name |-> "gripper_transfer", home |-> home, source |-> source,
                  target |-> target, source_approach_axis |-> axis,
                  target_approach_axis |-> None,
                  source_approach_distance |-> distance,
                  target_approach_distance |-> distance,
                  gripper_open |-> gripper_open, gripper_close |-> gripper_close]
        IN  \E r \in {GripperTransfer(a, first, second, arm)} :
                /\ task' = a
                /\ hwLog' = r.log
                /\ outcome' = r.outcome
                /\ caught' = r.caught
    /\ op' = "gripper_transfer"
    /\ NoCall
    /\ UNCHANGED <<pc, locals, passLog>>

CallGripperScrewTransfer ==
    /\ pc = "idle" /\ task.name = "none"
    /\ \E home \in Homes, screwdriver_loc \in Poses \cup {None},
          screw_loc \in {<<287, -286, 318, 3138, -9, -1>>, None},
          target \in {<<319, -286, 348, 3138, -9, -1>>},
          gripper_open \in {0, 120}, gripper_close \in {0, 200},
          first \in GripperOutcomes, second \in GripperOutcomes,
          arm \in {"ok", "first_move_fails"}, fails \in 0..MaxSteps,
          script \in BOOLEAN :
        LET a == [name |-> "gripper_screw_transfer", home |-> home,
                  screwdriver_loc |-> screwdriver_loc, screw_loc |-> screw_loc,
                  target |-> target, gripper_open |-> gripper_open,
                  gripper_close |-> gripper_close]
        IN  \E r \in {GripperScrewTransfer(a, first, second, arm, fails, script)} :
                /\ task' = a
                /\ hwLog' = r.log
                /\ outcome' = r.outcome
                /\ caught' = r.caught
    /\ op' = "gripper_screw_transfer"
    /\ NoCall
    /\ UNCHANGED <<pc, locals, passLog>>

CallRemoveCap ==
    /\ pc = "idle" /\ task.name = "none"
    /\ \E home \in Homes, source \in Poses \cup {None}, target \in Poses,
          gripper_open \in {0, 120}, gripper_close \in {0, 200},
          first \in GripperOutcomes, second \in GripperOutcomes,
          arm \in {"ok", "first_move_fails"}, fails \in 0..MaxSteps,
          script \in BOOLEAN :
        LET a == [name |-> "remove_cap", home |-> home, source |-> source,
                  target |-> target, gripper_open |-> gripper_open,
                  gripper_close |-> gripper_close]
        IN  \E r \in {RemoveCap(a, first, second, arm, fails, script)} :
                /\ task' = a
                /\ hwLog' = r.log
                /\ outcome' = r.outcome
                /\ caught' = r.caught
    /\ op' = "remove_cap"
    /\ NoCall
    /\ UNCHANGED <<pc, locals, passLog>>

CallPlaceCap ==
    /\ pc = "idle" /\ task.name = "none"
    /\ \E home \in Homes, source \in Poses \cup {None}, target \in Poses,
          gripper_open \in {0, 120}, gripper_close \in {0, 200},
          first \in GripperOutcomes, second \in GripperOutcomes,
          arm \in {"ok", "first_move_fails"}, fails \in 0..MaxSteps,
          script \in BOOLEAN :
        LET a == [name |-> "place_cap", home |-> home, source |-> source,
                  target |-> target, gripper_open |-> gripper_open,
                  gripper_close |-> gripper_close]
        IN  \E r \in {PlaceCap(a, first, second, arm, fails, script)} :
                /\ task' = a
                /\ hwLog' = r.log
                /\ outcome' = r.outcome
                /\ caught' = r.caught
    /\ op' = "place_cap"
    /\ NoCall
    /\ UNCHANGED <<pc, locals, passLog>>

InitTask ==
    /\ NoClient /\ AtRest
    /\ NoResponse /\ NoProgram /\ NoTask

\* the caller has seen the outcome; the facade keeps nothing between two tasks
TaskDone ==
    /\ pc = "idle" /\ task.name # "none"
    /\ op' = "none" /\ outcome' = "returned"
    /\ task' = [name |-> "none"] /\ hwLog' = <<>> /\ caught' = "none"
    /\ NoCall
    /\ UNCHANGED <<pc, locals, passLog>>

NextTask ==
    \/ CallGripperTransfer /\ UNCHANGED <<responseVars, urpVars>>
    \/ CallGripperScrewTransfer /\ UNCHANGED <<responseVars, urpVars>>
    \/ CallRemoveCap /\ UNCHANGED <<responseVars, urpVars>>
    \/ CallPlaceCap /\ UNCHANGED <<responseVars, urpVars>>
    \/ TaskDone /\ UNCHANGED <<responseVars, urpVars>>

SpecTask == InitTask /\ [][NextTask]_vars

----------------------------------------------------------------------------
(* Properties of the task facade, checked under SpecTask *)

\* C10: gripper_transfer called without a source or without a target (None or
\* empty) raises an exception, and it has sent nothing to the arm (no home
\* move) and nothing to the gripper (no connection) when it does.
C10_RaisesBeforeAnyMotion ==
    (op = "gripper_transfer" /\ (Falsy(task.source) \/ Falsy(task.target)))
    => outcome = "Exception" /\ hwLog = <<>>

\* gripper_transfer was called with a source and no target, and raised
C10_Witness ==
    /\ op = "gripper_transfer" /\ task.source \in Poses /\ task.target = None
    /\ outcome = "Exception" /\ hwLog = <<>>

----------------------------------------------------------------------------
(* The finger gripper controller used on its own: pick, place, transfer *)

ApproachAxes ==
    {None, <<"z">>, <<"Z">>, <<"y">>, <<"-", "y">>, <<"x">>, <<"-", "x">>,
     <<"-", "Y">>, <<"w">>}

Distances == {Some(50), Some(30), Absent}

\* a controller as constructed, and one whose positions a task has overridden
Controllers == {NewController, Override(NewController, 190, 240)}

\* pick(pick_goal, approach_axis, approach_distance); an argument left out has
\* its default already (axis "z", distance 0.05 m)
CallPick ==
    /\ pc = "idle" /\ task.name = "none"
    /\ \E c \in Controllers, goal \in Poses \cup {None, <<>>},
          approach_axis \in ApproachAxes, approach_distance \in Distances,
          fails \in 0..4 :
       \E r \in {Pick(c, goal, approach_axis, approach_distance, fails)} :
            /\ task' = [name |-> "pick", controller |-> c, goal |-> goal,
                        approach_axis |-> approach_axis,
                        approach_distance |-> approach_distance,
                        after |-> r.goal]
            /\ hwLog' = r.log
            /\ outcome' = r.outcome
            /\ caught' = "none"
    /\ op' = "pick"
    /\ NoCall
    /\ UNCHANGED <<pc, locals, passLog>>

CallPlace ==
    /\ pc = "idle" /\ task.name = "none"
    /\ \E c \in Controllers, goal \in Poses \cup {None, <<>>},
          approach_axis \in ApproachAxes, approach_distance \in Distances,
          fails \in 0..4 :
       \E r \in {Place(c, goal, approach_axis, approach_distance, fails)} :
            /\ task' = [name |-> "place", controller |-> c, goal |-> goal,
                        approach_axis |-> approach_axis,
                        approach_distance |-> approach_distance,
                        after |-> r.goal]
            /\ hwLog' = r.log
            /\ outcome' = r.outcome
            /\ caught' = "none"
    /\ op' = "place"
    /\ NoCall
    /\ UNCHANGED <<pc, locals, passLog>>

\* transfer(source, target, ...); an argument left out is None (line 150)
CallTransfer ==
    /\ pc = "idle" /\ task.name = "none"
    /\ \E c \in Controllers, source \in Poses \cup {None}, target \in Poses \cup {None},
          source_approach_axis \in {None, <<"-", "y">>},
          target_approach_axis \in {None, <<"x">>},
          source_approach_distance \in {Absent, Some(50)},
          target_approach_distance \in {Absent, Some(50)},
          fails \in 0..8 :
       \E r \in {Transfer(c, source, target, source_approach_axis,
                          target_approach_axis, source_approach_distance,
                          target_approach_distance, fails)} :
            /\ task' = [name |-> "transfer", controller |-> c, source |-> source,
                        target |-> target,
                        source_approach_axis |-> source_approach_axis,
                        target_approach_axis |-> target_approach_axis,
                        source_approach_distance |-> source_approach_distance,
                        target_approach_distance |-> target_approach_distance]
            /\ hwLog' = r.log
            /\ outcome' = r.outcome
            /\ caught' = "none"
    /\ op' = "transfer"
    /\ NoCall
    /\ UNCHANGED <<pc, locals, passLog>>

NextGripper ==
    \/ CallPick /\ UNCHANGED <<responseVars, urpVars>>
    \/ CallPlace /\ UNCHANGED <<responseVars, urpVars>>
    \/ CallTransfer /\ UNCHANGED <<responseVars, urpVars>>
    \/ TaskDone /\ UNCHANGED <<responseVars, urpVars>>

SpecGripper == InitTask /\ [][NextGripper]_vars

----------------------------------------------------------------------------
(* Properties of the gripper controller, checked under SpecGripper *)

\* the call of pick or place issued at least its first move
Approached == op \in {"pick", "place"} /\ hwLog # <<>>

\* C11: for pick and place the above pose (the pose of the first move) equals
\* the goal pose in every coordinate except the one of the approach axis; for
\* the axes z, y, x the approach distance is added to that coordinate, for -y
\* and -x it is subtracted; goal [0.1,0.2,0.3,0,0,0] with axis z and distance
\* 0.05 gives [0.1,0.2,0.35,0,0,0].
C11_AbovePose ==
    Approached =>
        LET goal  == task.goal
            above == hwLog[1].arg
            d     == task.approach_distance.value
            axis  == task.approach_axis
        IN  /\ hwLog[1].dev = "arm" /\ hwLog[1].cmd = "movel"
            /\ axis = <<"z">> => above = [goal EXCEPT ![3] = goal[3] + d]
            /\ axis = <<"y">> => above = [goal EXCEPT ![2] = goal[2] + d]
            /\ axis = <<"x">> => above = [goal EXCEPT ![1] = goal[1] + d]
            /\ axis = <<"-", "y">> => above = [goal EXCEPT ![2] = goal[2] - d]
            /\ axis = <<"-", "x">> => above = [goal EXCEPT ![1] = goal[1] - d]
            /\ Cardinality({i \in 1..6 : above[i] # goal[i]}) <= 1
            /\ (goal = <<100, 200, 300, 0, 0, 0>> /\ axis = <<"z">> /\ d = 50)
                    => above = <<100, 200, 350, 0, 0, 0>>

\* a place along -y has moved to the pose 50 mm below the goal in y
C11_Witness ==
    /\ op = "place" /\ outcome = "returned"
    /\ task.goal = <<100, 200, 300, 0, 0, 0>> /\ task.approach_axis = <<"-", "y">>
    /\ hwLog[1] = Arm("movel", <<100, 150, 300, 0, 0, 0>>)

\* C12: every pick or place that returns has issued exactly four commands, in
\* this order: a linear move to the above pose, a linear move to the goal pose,
\* the blocking gripper move (to the close position for pick, to the open
\* position the controller was built with for place), a linear move to the same above pose; and in every
\* pick or place, returned or not, a gripper command comes only after the move
\* to the goal pose has been issued.
C12_PickPlaceSequence ==
    /\ (op \in {"pick", "place"} /\ outcome = "returned")
        => /\ Len(hwLog) = 4
           /\ hwLog[1].dev = "arm" /\ hwLog[1].cmd = "movel"
           /\ hwLog[1].arg # task.goal
           /\ hwLog[2] = Arm("movel", task.goal)
           /\ hwLog[3].dev = "gripper" /\ hwLog[3].cmd = "move"
           /\ hwLog[3].arg[1] = IF op = "pick" THEN task.controller.gripper_close
                                ELSE task.controller.griper_open
           /\ hwLog[4] = hwLog[1]
    /\ op \in {"pick", "place"}
        => \A i \in 1..Len(hwLog) :
                hwLog[i].dev = "gripper"
                    => \E j \in 1..(i - 1) : hwLog[j] = Arm("movel", task.goal)

\* a pick with an overridden close position has returned after four commands
C12_Witness ==
    /\ op = "pick" /\ outcome = "returned" /\ Len(hwLog) = 4
    /\ hwLog[3] = Gripper("move", <<240, 150, 0>>)

\* no command sent to the arm or to the gripper raised
NoHardwareError == outcome \notin {"RobotException", "OSError"}

\* C13 as stated: for every valid source and target, whatever approach axes and
\* distances are passed or left at their defaults, transfer performs the four
\* commands of pick at the source and then the four commands of place at the
\* target, provided no command raises.
C13_TransferPicksThenPlaces ==
    (op = "transfer" /\ task.source \in Poses /\ task.target \in Poses
        /\ NoHardwareError)
    => /\ outcome = "returned"
       /\ Len(hwLog) = 8
       /\ hwLog[2] = Arm("movel", task.source)
       /\ hwLog[3].dev = "gripper"
       /\ hwLog[6] = Arm("movel", task.target)
       /\ hwLog[7].dev = "gripper"

----------------------------------------------------------------------------
(* Further properties of the task facade, checked under SpecTask *)

\* both connect_gripper calls of the task reached the gripper
GripperConnected ==
    /\ \E i \in 1..Len(hwLog) : hwLog[i] = Gripper("connect", <<>>)
    /\ \A i \in 1..Len(hwLog) : hwLog[i].cmd # "connect_failed"

\* C14 as stated: gripper_transfer called with a valid source and target (and
\* approach distances, with the gripper reachable and no command failing)
\* closes the gripper at the source pose and then opens it at the target pose,
\* between the first and the last home move.
C14_TransferIsPerformed ==
    (op = "gripper_transfer" /\ task.source \in Poses /\ task.target \in Poses
        /\ task.source_approach_distance.given /\ outcome = "returned"
        /\ GripperConnected)
    => \E i, j \in 2..(Len(hwLog) - 1) :
            /\ i < j
            /\ hwLog[i] = Arm("movel", task.source)
            /\ hwLog[i + 1].dev = "gripper" /\ hwLog[i + 1].cmd = "move"
            /\ hwLog[j] = Arm("movel", task.target)
            /\ hwLog[j + 1].dev = "gripper" /\ hwLog[j + 1].cmd = "move"

FacadeTasks == {"gripper_transfer", "gripper_screw_transfer", "remove_cap", "place_cap"}

\* C15 as stated: when a step after the initial home raises an exception (the
\* except branch of the task has caught one), the task ends by disconnecting
\* the gripper and then moving the arm home, and returns.
C15_CleanupAfterFailure ==
    (op \in FacadeTasks /\ caught # "none")
    => /\ outcome = "returned"
       /\ Len(hwLog) >= 3
       /\ hwLog[Len(hwLog) - 1] = Gripper("disconnect", <<>>)
       /\ hwLog[Len(hwLog)] = HomeMove(task.home)

\* the task was called with the arguments its own check asks for
ArgumentsChecked ==
    op = "gripper_transfer" => ~Falsy(task.source) /\ ~Falsy(task.target)

\* C16 as stated: once the argument checks have passed, a facade task returns
\* normally, whatever step of it raised (the construction of the controller,
\* the connection of the gripper, a move, a grip, the cleanup).
C16_FailuresAreSwallowed ==
    (op \in FacadeTasks /\ ArgumentsChecked) => outcome = "returned"

\* the positions in the log of the commands that replace or close the
\* controller's gripper object
Sessions(log) ==
    {i \in 1..Len(log) : log[i].cmd \in {"connect", "connect_failed", "disconnect"}}

\* the connections opened by connect_gripper that disconnect_gripper has not
\* closed: disconnect closes the connection of the last connect_gripper only
StillOpen(log) ==
    {i \in Sessions(log) :
        /\ log[i].cmd = "connect"
        /\ \/ {j \in Sessions(log) : j > i} = {}
           \/ log[Min({j \in Sessions(log) : j > i})].cmd # "disconnect"}

\* C17 as stated: when a facade task has returned, no gripper connection that
\* was opened during the task, by the controller's constructor or by the
\* connect_gripper call that follows it, is still open.
C17_ToolIsReleased ==
    (op \in FacadeTasks /\ outcome = "returned") => StillOpen(hwLog) = {}

\* the pose at which the task picks
PickGoal == IF op = "gripper_screw_transfer" THEN task.screwdriver_loc ELSE task.source

\* C18 as stated: in a facade task called with gripper_open = o and
\* gripper_close = c, the gripper move of every pick (the one issued at the
\* pick goal) commands position c and the gripper move of every place (the one
\* issued at any other goal) commands position o.
C18_PositionsAreOverridden ==
    (op \in FacadeTasks /\ task.gripper_open # 0 /\ task.gripper_close # 0)
    => \A i \in 2..Len(hwLog) :
            (hwLog[i].dev = "gripper" /\ hwLog[i].cmd = "move"
                /\ hwLog[i - 1].cmd = "movel")
            => hwLog[i].arg[1] = IF hwLog[i - 1].arg = PickGoal
                                 THEN task.gripper_close ELSE task.gripper_open

-----------------------------------------------------------------------------
(* Properties of the typed wrappers, checked under SpecWrappers *)

\* the positions of the single spaces of a text
Spaces(s) == {i \in 1..Len(s) : s[i] = " "}

\* the text between the first space and the next one, or the end of the text
AfterFirstSpace(s) ==
    LET first == Min(Spaces(s))
        later == {i \in Spaces(s) : i > first}
    IN  SubSeq(s, first + 1, IF later = {} THEN Len(s) ELSE Min(later) - 1)

\* a returned value with no second token: nothing at all, or a text with no space
NoSecondToken(s) == s = None \/ Spaces(s) = {}

\* a wrapper called on its own has finished, and the value it assigned if any
WrapperDone == op \in {"robot_mode", "safety_status"} /\ pc = "idle"
WrapperValue == IF op = "robot_mode" THEN robot_mode ELSE safety_status

\* initialize takes the step that calls robot_mode() or safety_status()
WrapperStep ==
    op = "initialize" /\ pc \in {"robot_mode", "safety_status"} /\ pc' # pc

\* C19: robot_mode() and safety_status() return the second token of what
\* send_command returned, the text after its first space up to the next one:
\* 'Robotmode: RUNNING' gives 'RUNNING' and 'Safetystatus: NORMAL' gives
\* 'NORMAL'.  When send_command returned None the wrapper raises AttributeError
\* and when the text has no second token it raises IndexError; it assigns no
\* value then, and inside initialize the error ends initialize at that query
C19_SecondTokenOrError ==
    /\ [](WrapperDone =>
            IF NoSecondToken(ret)
            THEN /\ outcome = IF ret = None THEN "AttributeError" ELSE "IndexError"
                 /\ WrapperValue = Unset
            ELSE /\ outcome = "returned"
                 /\ WrapperValue = AfterFirstSpace(ret)
                 /\ (ret = <<"R","o","b","o","t","m","o","d","e",":"," ">> \o RUNNING
                        => WrapperValue = RUNNING)
                 /\ (ret = <<"S","a","f","e","t","y","s","t","a","t","u","s",":"," ">> \o NORMAL
                        => WrapperValue = NORMAL))
    /\ [][WrapperStep =>
            IF NoSecondToken(ret')
            THEN /\ pc' = "idle"
                 /\ outcome' = IF ret' = None THEN "AttributeError" ELSE "IndexError"
                 /\ robot_mode' = Unset \/ (pc = "safety_status" /\ safety_status' = Unset)
            ELSE /\ pc' # "idle" /\ outcome' = outcome
                 /\ IF pc = "robot_mode"
                    THEN robot_mode' = AfterFirstSpace(ret')
                    ELSE safety_status' = AfterFirstSpace(ret')]_vars

\* initialize was ended by safety_status() failing on a missing reply, after
\* robot_mode() had returned its token
C19_Witness ==
    /\ op = "initialize" /\ pc = "idle" /\ outcome = "AttributeError"
    /\ ret = None /\ robot_mode \in RobotModes
    /\ safety_status = Unset /\ remote_control_status = Unset

-----------------------------------------------------------------------------
(* The argument checks at the entry of UR(), run_urp_program, pipette_transfer,
   pick and place *)

Hostnames == {None, <<>>, <<"u","r","5">>}

\* line 31: range(10)
ConnectTries == 10

Slept(seconds) == [dev |-> "sleep", cmd |-> "sleep", arg |-> <<seconds>>]
Dashboard(cmd) == [dev |-> "dashboard", cmd |-> cmd, arg |-> <<>>]

RECURSIVE Repeat(_, _)
Repeat(steps, n) == IF n <= 0 THEN <<>> ELSE steps \o Repeat(steps, n - 1)

\* mutant: Robot(hostname) is tried once
ConnectUr_Once(failures) ==
    IF failures = 0
    THEN [log |-> <<Arm("connect", <<>>)>>, connected |-> TRUE]
    ELSE [log |-> <<Arm("connect_failed", <<>>)>>, connected |-> FALSE]

\* Connection.connect_ur, lines 25-40: Robot(hostname) is tried up to ten times;
\* a try that raises socket.error is followed by a sleep of 10 s and the next
\* try, a try that succeeds ends the loop; failures is the number of tries the
\* robot refuses.  After ten failures the connection field stays None.
ConnectUr(failures) ==
    IF failures < ConnectTries
    THEN [log |-> Repeat(<<Arm("connect_failed", <<>>), Slept(10)>>, failures)
                    \o <<Arm("connect", <<>>)>>,
          connected |-> TRUE]
    ELSE [log |-> Repeat(<<Arm("connect_failed", <<>>), Slept(10)>>, ConnectTries),
          connected |-> FALSE]

Pipette(cmd, arg) == [dev |-> "pipette", cmd |-> cmd, arg |-> arg]

\* mutant: the constructor opens its connections before it looks at hostname
HostnameMissing_Never(hostname) == FALSE

\* line 62: `not hostname`
HostnameMissing(hostname) == Falsy(hostname)

\* UR.__init__, lines 56-82; a failed construction leaves no object to call
ConstructUR ==
    /\ pc = "unconstructed"
    /\ op' = "construct"
    /\ \E hostname \in Hostnames, how \in ConnectOutcomes,
          failures \in 0..ConnectTries :
        /\ task' = [name |-> "UR", hostname |-> hostname, failures |-> failures]
        /\ IF HostnameMissing(hostname)
           THEN /\ outcome' = "TypeError" /\ pc' = pc /\ hwLog' = <<>>
                /\ connection' = "None" /\ sockState' = "none" /\ inflight' = <<>>
                /\ UNCHANGED robot_current_joint_angles
           ELSE /\ \E s \in {Connect([connection |-> "None", sockState |-> "none",
                                     inflight |-> <<>>], how)} :
                        /\ connection' = s.connection /\ sockState' = s.sockState
                        /\ inflight' = s.inflight
                /\ \E arm \in {ConnectUr(failures)} :
                    IF arm.connected
                    THEN /\ hwLog' = <<Dashboard("connect")>> \o arm.log
                                     \o <<Arm("set_tcp", <<0, 0, 0, 0, 0, 0>>),
                                          Arm("getj", <<>>)>>
                         /\ robot_current_joint_angles' = FormatAll(joints)
                         /\ pc' = "idle" /\ outcome' = "returned"
                    ELSE /\ hwLog' = <<Dashboard("connect")>> \o arm.log
                         /\ outcome' = "AttributeError"
                         /\ UNCHANGED <<pc, robot_current_joint_angles>>
    /\ caught' = "none"
    /\ UNCHANGED <<robotMode, safetyStatus, opMode, ret, lastSend, locals, passLog,
                   joints, program_name, program_status, ready_status_count,
                   pollLog>>

\* FingerGripperController.connect_gripper called on its own, lines 42-62
CallConnectGripper ==
    /\ pc = "idle" /\ task.name = "none"
    /\ \E how \in GripperOutcomes :
       \E r \in {ConnectGripper(NewController, how)} :
            /\ task' = [name |-> "connect_gripper", how |-> how]
            /\ hwLog' = r.log
            /\ outcome' = IF r.raised THEN "OSError" ELSE "returned"
    /\ caught' = "none"
    /\ op' = "connect_gripper"
    /\ NoCall
    /\ UNCHANGED <<pc, locals, passLog>>

\* UR.pipette_transfer, lines 337-358: the check of tip_loc and source, then the
\* pipette calls inside try; an exception of the body is caught and printed
PipetteTransfer(home, tip_loc, tip_trash, source, target, fails) ==
    IF Falsy(tip_loc) \/ Falsy(source)
    THEN [log |-> <<>>, outcome |-> "Exception", caught |-> "none"]
    ELSE LET steps == <<Pipette("connect_pipette", <<>>),
                        Pipette("pick_tip", tip_loc),
                        HomeMove(home),
                        Pipette("transfer_sample", <<source, target>>),
                        Pipette("eject_tip", tip_trash),
                        Pipette("disconnect_pipette", <<>>)>>
             r == Run(steps, fails)
         IN  [log |-> r.log, outcome |-> "returned", caught |-> r.outcome]

CallPipetteTransfer ==
    /\ pc = "idle" /\ task.name = "none"
    /\ \E home \in Homes, tip_loc \in Poses \cup {None, <<>>},
          source \in Poses \cup {None, <<>>}, target \in Poses \cup {None},
          fails \in 0..6 :
        LET a == [name |-> "pipette_transfer", home |-> home, tip_loc |-> tip_loc,
                  tip_trash |-> <<100, 200, 300, 0, 0, 0>>, source |-> source,
                  target |-> target]
        IN  \E r \in {PipetteTransfer(home, tip_loc, a.tip_trash, source, target,
                                      fails)} :
                /\ task' = a
                /\ hwLog' = r.log
                /\ outcome' = r.outcome
                /\ caught' = IF r.caught = "returned" THEN "none" ELSE r.caught
    /\ op' = "pipette_transfer"
    /\ NoCall
    /\ UNCHANGED <<pc, locals, passLog>>

\* no facade object yet
InitEntry ==
    /\ NoClient /\ NoResponse /\ NoProgram /\ NoTask
    /\ op = "none" /\ pc = "unconstructed" /\ outcome = "returned"

\* the facade has been constructed and has been asked for nothing since
Fresh == op = "none" /\ program_name = None

\* a facade is constructed, then run_urp_program is called on it, or tool calls
\* are made one after the other
NextEntry ==
    \/ ConstructUR /\ UNCHANGED responseVars
    \/ StartRunUrp /\ Fresh /\ task.name = "none"
            /\ UNCHANGED <<responseVars, taskVars>>
    \/ TransferProgram /\ UNCHANGED <<responseVars, taskVars>>
    \/ LoadProgram /\ UNCHANGED <<responseVars, taskVars>>
    \/ RunProgram /\ UNCHANGED <<responseVars, taskVars>>
    \/ Poll /\ UNCHANGED <<responseVars, taskVars>>
    \/ ArmMoves /\ pc # "unconstructed" /\ UNCHANGED <<responseVars, taskVars>>
    \/ CallPipetteTransfer /\ Fresh /\ UNCHANGED <<responseVars, urpVars>>
    \/ CallPick /\ Fresh /\ UNCHANGED <<responseVars, urpVars>>
    \/ CallPlace /\ Fresh /\ UNCHANGED <<responseVars, urpVars>>
    \/ CallConnectGripper /\ Fresh /\ UNCHANGED <<responseVars, urpVars>>
    \/ TaskDone /\ UNCHANGED <<responseVars, urpVars>>

SpecEntry == InitEntry /\ [][NextEntry]_vars

-----------------------------------------------------------------------------
(* Properties of the argument checks, checked under SpecEntry *)

\* C20: a missing precondition raises before anything reaches the hardware.
\* UR() without a hostname raises TypeError with no dashboard socket and no arm
\* connection opened; run_urp_program without a program name raises ValueError
\* with no dashboard command sent and no poll made; pipette_transfer without
\* tip_loc or without source raises with no pipette call and no motion; pick and
\* place without a goal pose raise with no move and no gripper command
C20_RaisesBeforeHardware ==
    /\ (op = "construct" /\ Falsy(task.hostname))
        => /\ outcome = "TypeError" /\ hwLog = <<>>
           /\ connection = "None" /\ sockState = "none"
    /\ (op = "run_urp_program" /\ Falsy(program_name))
        => /\ outcome = "ValueError" /\ pc = "idle"
           /\ lastSend = NoSend /\ ret = None /\ pollLog = <<>>
           /\ hwLog = <<>>
    /\ (op = "pipette_transfer" /\ (Falsy(task.tip_loc) \/ Falsy(task.source)))
        => outcome = "Exception" /\ hwLog = <<>>
    /\ (op \in {"pick", "place"} /\ Falsy(task.goal))
        => outcome = "Exception" /\ hwLog = <<>>

\* pipette_transfer was called with a tip location and no source, and raised
C20_Witness ==
    /\ op = "pipette_transfer" /\ task.tip_loc \in Poses /\ task.source = None
    /\ outcome = "Exception" /\ hwLog = <<>>

-----------------------------------------------------------------------------
(* Further properties of initialize, checked under SpecInitialize *)

\* the pass has read a safety status that is neither NORMAL nor PROTECTIVE_STOP
RestartPass == QueriesDone /\ Upper(safety_status) \notin {NORMAL, PROTECTIVE_STOP}

RestartCommands == <<CmdCloseSafetyPopup, CmdRestartSafety, CmdBrakeRelease>>

\* the commands of the current pass after its four queries, three at most
AfterFour(log) == SubSeq(log, 5, Min({Len(log), 7}))

\* C21: in a pass whose safety status is neither NORMAL nor PROTECTIVE_STOP the
\* commands after the four queries are 'close safety popup', then 'restart
\* safety', then 'brake release', in this order and all three before the pass
\* goes on; between 'restart safety' and 'brake release' the socket is closed
\* and connect() is called, so that a connected socket at the brake release is a
\* new one holding only the banner; 'unlock protective stop' is not sent.
C21_RestartSequence ==
    RestartPass
    => /\ SubSeq(passLog, 1, 4) = Queries
       /\ \A i \in 1..Len(passLog) : passLog[i] # CmdUnlockProtectiveStop
       /\ AfterFour(passLog) = SubSeq(RestartCommands, 1, Len(AfterFour(passLog)))
       /\ pc = "safety_branch" => passLog = Queries
       /\ pc = "restart_safety" => passLog = Queries \o SubSeq(RestartCommands, 1, 1)
       /\ pc \in {"restart_reconnect", "restart_brake"}
            => passLog = Queries \o SubSeq(RestartCommands, 1, 2)
       /\ pc = "restart_reconnect" => sockState # "closed"
       /\ pc = "restart_brake"
            => /\ sockState \in {"connected", "unconnected", "closed"}
               /\ sockState = "connected" => inflight = <<Line(Banner)>>
       /\ pc \in {"mode_switch", "decide", "robot_mode"}
            => AfterFour(passLog) = RestartCommands

\* a pass that saw a fault has sent the three commands over a renewed connection
C21_Witness ==
    /\ RestartPass /\ safety_status = FAULT /\ pc = "mode_switch"
    /\ passLog = Queries \o RestartCommands
    /\ sockState = "connected" /\ ~lastSend.error

PowerOnModes == {POWER_OFF, BOOTING, POWER_ON, IDLE}

\* the pass takes its last step (lines 74-81) and does not return
PowerOnStep == op = "initialize" /\ pc = "decide" /\ pc' = "robot_mode"

\* C22: in a pass that does not return, the step of lines 77-79 sends 'brake
\* release' exactly when the robot mode read by the pass is POWER_OFF, BOOTING,
\* POWER_ON or IDLE; for any other robot mode (RUNNING with a safety status
\* other than NORMAL included) the step calls send_command not at all, and in
\* both cases the next pass follows with its first query.
C22_BrakeReleaseByMode ==
    [][PowerOnStep
        => /\ ~(robot_mode = RUNNING /\ safety_status = NORMAL)
           /\ IF robot_mode \in PowerOnModes
              THEN /\ passLog' = Append(passLog, CmdBrakeRelease)
                   /\ lastSend'.command = CmdBrakeRelease
              ELSE passLog' = passLog /\ lastSend' = lastSend /\ ret' = ret
           /\ outcome' = "running" /\ robot_mode' = robot_mode]_vars

\* a pass that read IDLE and NORMAL sent the brake release as its only command
\* after the queries, and the next pass is about to start
C22_Witness ==
    /\ op = "initialize" /\ pc = "robot_mode" /\ QueriesDone
    /\ robot_mode = IDLE /\ safety_status = NORMAL
    /\ passLog = Append(Queries, CmdBrakeRelease)

\* a query of the current pass returned no reply that the pass could use
QueryFailed ==
    robot_mode = Unset \/ safety_status = Unset \/ operation_mode = None

InitializeEnded == op = "initialize" /\ pc = "idle"

\* the pass is at its decision and did not read RUNNING and NORMAL
NotReadyDecision ==
    op = "initialize" /\ pc = "decide"
        /\ ~(robot_mode = RUNNING /\ safety_status = NORMAL)

C24_ConvergesFromEveryState ==
    (op = "initialize" /\ outcome = "running")
        ~> (op = "initialize" /\ pc = "idle" /\ outcome = "returned")

-----------------------------------------------------------------------------
(* Further properties of run_urp_program, checked under SpecProgramFair *)

ProgramPath == <<"/","p","r","o","g","r","a","m","s","/">> \o program_name

\* one turn of the loop: a step at the loop that is not a move of the arm
PollTurn == op = "run_urp_program" /\ pc = "poll" /\ joints' = joints

\* a turn of the loop found the joint angles changed
BusyPoll == PollTurn /\ pc' = "poll" /\ ready_status_count' = 0

\* C25: run_urp_program sends 'load' with the program path, then 'play', and
\* polls the joint angles only after both.  From then on it leaves the loop in
\* one way only: a turn of the loop ends the call, with the one return value of
\* line 410, exactly when it is the sixth poll in a row that found the angles
\* unchanged; a poll that finds them changed sets the count to zero and the
\* loop goes on, so a call that polls forever is one whose polls keep finding
\* a change, and there is no timeout.
C25_LoadPlayPollNoTimeout ==
    /\ [][(op = "run_urp_program" /\ pc = "load" /\ pc' # pc)
            => pc' = "play" /\ lastSend'.command = CmdLoad(ProgramPath)
                /\ pollLog' = <<>>]_vars
    /\ [][(op = "run_urp_program" /\ pc = "play" /\ pc' # pc)
            => pc' = "poll" /\ lastSend'.command = CmdPlay /\ pollLog' = <<>>]_vars
    /\ [][pollLog' # pollLog /\ pollLog' # <<>>
            => pc = "poll" /\ lastSend.command = CmdPlay]_vars
    /\ [][PollTurn
            => /\ pollLog'[Len(pollLog')] = "READY"
                    <=> FormatAll(joints) = robot_current_joint_angles
               /\ IF Len(pollLog') = ReadyPolls /\ AllReady(pollLog')
                  THEN pc' = "idle" /\ outcome' = "returned"
                  ELSE pc' = "poll" /\ outcome' = "running"
               /\ pollLog'[Len(pollLog')] = "BUSY" => ready_status_count' = 0]_vars
    /\ [](op = "run_urp_program" /\ pc = "idle" /\ program_name \in ProgramNames
            => outcome = "returned" /\ program_status = "READY")
    /\ (<>[](pc = "poll") => []<><<BusyPoll>>_vars)

\* six polls in a row found the angles changed and the call is still polling
C25_Witness ==
    /\ op = "run_urp_program" /\ pc = "poll" /\ outcome = "running"
    /\ Len(pollLog) = ReadyPolls
    /\ \A i \in 1..Len(pollLog) : pollLog[i] = "BUSY"

-----------------------------------------------------------------------------
(* Properties of the connections, checked under SpecEntry *)

\* the tries to connect to a device that a log holds, failed ones included
Attempts(log, dev) ==
    Cardinality({i \in 1..Len(log) :
                    log[i].dev = dev /\ log[i].cmd \in {"connect", "connect_failed"}})

Sleeps(log) == Cardinality({i \in 1..Len(log) : log[i].dev = "sleep"})

\* a call that opens connections has ended: UR() with a hostname, or
\* connect_gripper
Connecting ==
    \/ op = "construct" /\ ~Falsy(task.hostname)
    \/ op = "connect_gripper"

\* C26 as stated: a failed connection attempt (dashboard, motion connection,
\* gripper) is made once and is never made again after a sleep.
C26_AttemptedOnce ==
    Connecting
    => /\ \A dev \in {"dashboard", "arm", "gripper"} : Attempts(hwLog, dev) <= 1
       /\ Sleeps(hwLog) = 0

\* C26 amended: the dashboard connection and the gripper connection are tried
\* once per call and never after a sleep.  The motion connection is tried
\* again: each refused try is followed by a sleep of 10 s and the next try, up
\* to ten tries in all; the first try that succeeds is the last, and after ten
\* refused tries the constructor fails with AttributeError.
C26_OnlyMotionConnectionRetries ==
    Connecting
    => /\ \A dev \in {"dashboard", "gripper"} : Attempts(hwLog, dev) <= 1
       /\ op = "connect_gripper" => Sleeps(hwLog) = 0
       /\ op = "construct"
            => /\ Attempts(hwLog, "dashboard") = 1
               /\ Attempts(hwLog, "arm") = Min({task.failures + 1, ConnectTries})
               /\ Sleeps(hwLog) = Min({task.failures, ConnectTries})
               /\ \A i \in 1..Len(hwLog) :
                    /\ hwLog[i].dev = "sleep"
                        => hwLog[i].arg = <<10>> /\ hwLog[i - 1] = Arm("connect_failed", <<>>)
                    /\ hwLog[i] = Arm("connect_failed", <<>>)
                        => i < Len(hwLog) /\ hwLog[i + 1].dev = "sleep"
                    /\ hwLog[i] = Arm("connect", <<>>)
                        => \A j \in (i + 1)..Len(hwLog) :
                                hwLog[j].cmd \notin {"connect", "connect_failed", "sleep"}
               /\ outcome = "AttributeError" <=> task.failures >= ConnectTries
               /\ outcome = "returned" <=> task.failures < ConnectTries

\* the robot refused two tries and accepted the third: the constructor returned
C26_Witness ==
    /\ op = "construct" /\ outcome = "returned" /\ task.failures = 2
    /\ Attempts(hwLog, "arm") = 3 /\ Sleeps(hwLog) = 2

-----------------------------------------------------------------------------
(* The screwdriver controller (screwdriver_controller.py).  self.ur is the
   object the caller passes: it offers load_program, transfer_program and
   run_program, which go to the dashboard server. *)

\* line 45
InterpreterProgram == <<"/","p","r","o","g","r","a","m","s","/","i","n","t","e","r","p","r","e","t","e","r","_","m","o","d","e",".","u","r","p">>

FileNotFound == <<"F","i","l","e"," ","n","o","t"," ","f","o","u","n","d">>

DashboardCall(cmd, arg) == [dev |-> "dashboard", cmd |-> cmd, arg |-> arg]
Screwdriver(cmd, arg) == [dev |-> "screwdriver", cmd |-> cmd, arg |-> arg]

\* lines the dashboard server may answer a load with
LoadReplyLines ==
    {Line(<<"L","o","a","d","i","n","g"," ","p","r","o","g","r","a","m",":"," ","/","p","r","o","g","r","a","m","s","/","i","n","t","e","r","p","r","e","t","e","r","_","m","o","d","e",".","u","r","p">>),
     Line(<<"F","i","l","e"," ","n","o","t"," ","f","o","u","n","d",":"," ","/","p","r","o","g","r","a","m","s","/","i","n","t","e","r","p","r","e","t","e","r","_","m","o","d","e",".","u","r","p">>),
     Line(<<"E","r","r","o","r"," ","w","h","i","l","e"," ","l","o","a","d","i","n","g"," ","p","r","o","g","r","a","m",":"," ","/","p","r","o","g","r","a","m","s","/","i","n","t","e","r","p","r","e","t","e","r","_","m","o","d","e",".","u","r","p">>),
     Line(<<"f","i","l","e"," ","n","o","t"," ","f","o","u","n","d",":"," ","/","p","r","o","g","r","a","m","s","/","i","n","t","e","r","p","r","e","t","e","r","_","m","o","d","e",".","u","r","p">>)}

\* what load_program can return: None after a socket error, or the stripped
\* text of one or two lines
LoadReplies ==
    {None, <<>>}
    \cup {Strip(Flatten(lines)) :
            lines \in UNION {[1..n -> LoadReplyLines] : n \in 1..MaxReplyLines}}

\* mutant: the upload is made whatever the first reply says
NeedsUpload_Always(response) == TRUE

\* line 47: "File not found" in response
NeedsUpload(response) == Contains(response, FileNotFound)

\* load_interpreter_socket_program, lines 41-51; first is what the first load
\* returns.  `in` raises TypeError when it is None.
LoadInterpreter(first) ==
    LET load == DashboardCall("load", InterpreterProgram)
    IN  IF first = None
        THEN [log |-> <<load>>, outcome |-> "TypeError"]
        ELSE IF NeedsUpload(first)
        THEN [log |-> <<load, DashboardCall("transfer_program", InterpreterProgram),
                        load, DashboardCall("play", <<>>)>>,
              outcome |-> "returned"]
        ELSE [log |-> <<load, DashboardCall("play", <<>>)>>, outcome |-> "returned"]

\* ScrewdriverController.__init__, lines 11-39: the check of ur, the payload,
\* the connection of the screwdriver (its error is caught), then the load
NewScrewdriver(ur, connects, first) ==
    IF ~ur THEN [log |-> <<>>, outcome |-> "Exception"]
    ELSE LET made == <<Arm("set_payload", <<3>>),
                       Screwdriver(IF connects THEN "connect" ELSE "connect_failed",
                                   <<>>)>>
             loaded == LoadInterpreter(first)
         IN  [log |-> made \o loaded.log, outcome |-> loaded.outcome]

\* the pose raised by mm millimetres along z (deepcopy, then [2] += height)
Lifted(pose, mm) == Arm("movel", [pose EXCEPT ![3] = @ + mm])

\* pick_screw, lines 54-75; nothing is caught
PickScrew(screw_loc, fails) ==
    IF screw_loc = None THEN [log |-> <<>>, outcome |-> "TypeError"]
    ELSE Run(<<Lifted(screw_loc, 40), Lifted(screw_loc, 10),
               Arm("set_digital_out", <<0, 1>>), DashboardCall("play", <<>>),
               Screwdriver("activate_vacuum", <<>>), Screwdriver("auto_screw", <<>>),
               Lifted(screw_loc, 40)>>, fails)

\* screw_down, lines 77-105; nothing is caught
ScrewDown(target, fails) ==
    IF target = None THEN [log |-> <<>>, outcome |-> "TypeError"]
    ELSE Run(<<Lifted(target, 20), Arm("set_digital_out", <<0, 1>>),
               Arm("movel", target), DashboardCall("play", <<>>),
               Screwdriver("activate_vacuum", <<>>),
               Screwdriver("auto_screw", <<250>>),
               Screwdriver("drive_clockwise", <<200, 100>>),
               Screwdriver("deactivate_vacuum", <<>>),
               Arm("set_digital_out", <<0, 0>>), Lifted(target, 20)>>, fails)

CallNewScrewdriver ==
    /\ pc = "idle" /\ task.name = "none"
    /\ \E ur \in BOOLEAN, connects \in BOOLEAN, first \in LoadReplies :
       \E r \in {NewScrewdriver(ur, connects, first)} :
            /\ task' = [name |-> "ScrewdriverController", ur |-> ur,
                        first |-> IF ur THEN first ELSE None]
            /\ hwLog' = r.log
            /\ outcome' = r.outcome
    /\ caught' = "none"
    /\ op' = "ScrewdriverController"
    /\ NoCall
    /\ UNCHANGED <<pc, locals, passLog>>

CallLoadInterpreter ==
    /\ pc = "idle" /\ task.name = "none"
    /\ \E first \in LoadReplies :
       \E r \in {LoadInterpreter(first)} :
            /\ task' = [name |-> "load_interpreter_socket_program", ur |-> TRUE,
                        first |-> first]
            /\ hwLog' = r.log
            /\ outcome' = r.outcome
    /\ caught' = "none"
    /\ op' = "load_interpreter_socket_program"
    /\ NoCall
    /\ UNCHANGED <<pc, locals, passLog>>

CallPickScrew ==
    /\ pc = "idle" /\ task.name = "none"
    /\ \E screw_loc \in Poses \cup {None}, fails \in 0..7 :
       \E r \in {PickScrew(screw_loc, fails)} :
            /\ task' = [name |-> "pick_screw", screw_loc |-> screw_loc]
            /\ hwLog' = r.log
            /\ outcome' = r.outcome
    /\ caught' = "none"
    /\ op' = "pick_screw"
    /\ NoCall
    /\ UNCHANGED <<pc, locals, passLog>>

CallScrewDown ==
    /\ pc = "idle" /\ task.name = "none"
    /\ \E target \in Poses \cup {None}, fails \in 0..10 :
       \E r \in {ScrewDown(target, fails)} :
            /\ task' = [name |-> "screw_down", target |-> target]
            /\ hwLog' = r.log
            /\ outcome' = r.outcome
    /\ caught' = "none"
    /\ op' = "screw_down"
    /\ NoCall
    /\ UNCHANGED <<pc, locals, passLog>>

NextScrewdriver ==
    \/ CallNewScrewdriver /\ UNCHANGED <<responseVars, urpVars>>
    \/ CallLoadInterpreter /\ UNCHANGED <<responseVars, urpVars>>
    \/ CallPickScrew /\ UNCHANGED <<responseVars, urpVars>>
    \/ CallScrewDown /\ UNCHANGED <<responseVars, urpVars>>
    \/ TaskDone /\ UNCHANGED <<responseVars, urpVars>>

SpecScrewdriver == InitTask /\ [][NextScrewdriver]_vars

-----------------------------------------------------------------------------
(* Properties of the screwdriver controller, checked under SpecScrewdriver *)

Loads(log) == {i \in 1..Len(log) : log[i].dev = "dashboard" /\ log[i].cmd = "load"}
Uploads(log) ==
    {i \in 1..Len(log) : log[i].dev = "dashboard" /\ log[i].cmd = "transfer_program"}
Starts(log) == {i \in 1..Len(log) : log[i].dev = "dashboard" /\ log[i].cmd = "play"}

\* the interpreter program was loaded with a reply to the first load in hand
InterpreterLoaded ==
    /\ op \in {"ScrewdriverController", "load_interpreter_socket_program"}
    /\ task.ur /\ task.first # None

\* C27: loading the interpreter program sends one 'load' of
\* /programs/interpreter_mode.urp first; it uploads the file and loads it a
\* second time exactly when the reply to the first load contains 'File not
\* found' (upload between the two loads); and it starts the program exactly
\* once, after the last load, as the last command, in both cases.
C27_LoadUploadStart ==
    InterpreterLoaded
    => /\ outcome = "returned"
       /\ Loads(hwLog) # {} /\ Uploads(hwLog) \cup Starts(hwLog) # {}
       /\ \A i \in Uploads(hwLog) \cup Starts(hwLog) : i > Min(Loads(hwLog))
       /\ \A i \in Loads(hwLog) : hwLog[i].arg = InterpreterProgram
       /\ IF Contains(task.first, FileNotFound)
          THEN /\ Cardinality(Loads(hwLog)) = 2 /\ Cardinality(Uploads(hwLog)) = 1
               /\ \A i \in Uploads(hwLog) :
                    Min(Loads(hwLog)) < i /\ i < Max(Loads(hwLog))
          ELSE Cardinality(Loads(hwLog)) = 1 /\ Uploads(hwLog) = {}
       /\ Cardinality(Starts(hwLog)) = 1
       /\ \A i \in Starts(hwLog) : i = Len(hwLog) /\ i > Max(Loads(hwLog))

\* the first load answered 'File not found': upload, second load, one start
C27_Witness ==
    /\ op = "load_interpreter_socket_program"
    /\ task.first = <<"F","i","l","e"," ","n","o","t"," ","f","o","u","n","d",":"," ","/","p","r","o","g","r","a","m","s","/","i","n","t","e","r","p","r","e","t","e","r","_","m","o","d","e",".","u","r","p">>
    /\ Cardinality(Loads(hwLog)) = 2 /\ Cardinality(Uploads(hwLog)) = 1
    /\ Cardinality(Starts(hwLog)) = 1 /\ outcome = "returned"

-----------------------------------------------------------------------------
(* The camera controller (camera_controller.py).  Lengths are in whole units
   of the depth sensor, pixels are whole numbers. *)

\* classes of the trained model the detections below carry (line 53)
Classes == {"tipboxes", "wellplates"}

\* boxes as the model reports them: (xmin, ymin, xmax, ymax)
Boxes == {<<0, 0, 2, 2>>, <<1, 0, 4, 3>>, <<2, 2, 3, 3>>}

Depths == {0, 1, 2}

\* _calculate_box_center, lines 156-158: int((min + max) / 2)
CalculateBoxCenter(xmin, xmax, ymin, ymax) ==
    <<(xmin + xmax) \div 2, (ymin + ymax) \div 2>>

Centers == {CalculateBoxCenter(b[1], b[3], b[2], b[4]) : b \in Boxes}

\* the principal point of the depth stream
PrincipalPoint == <<1, 2>>

\* rs2_deproject_pixel_to_point (line 153) for a stream without distortion and
\* with the focal length as the unit: the point at the given depth on the ray
\* through the pixel
Deproject(pixel, depth) ==
    <<depth * (pixel[1] - PrincipalPoint[1]),
      depth * (pixel[2] - PrincipalPoint[2]),
      depth>>

\* the detections the loop of line 195 walks: zip(boxes.xyxy, classes)
Detections ==
    UNION {[1..n -> [box : Boxes, cls : Classes]] : n \in 0..MaxDetections}

\* mutant: the translation is made whatever the depth
ToolMoves_AnyDepth(trans_z) == TRUE

\* line 178
ToolMoves(trans_z) == trans_z # 0

\* move_to_object, lines 167-180
MoveToObject(object_reference_frame) ==
    IF object_reference_frame = None
    THEN [log |-> <<>>, outcome |-> "TypeError"]
    ELSE LET trans_x == object_reference_frame[1]
             trans_y == object_reference_frame[2]
             trans_z == object_reference_frame[3]
         IN  [log |-> IF ToolMoves(trans_z)
                      THEN <<Arm("translate_tool", <<0 - trans_x, 0 - trans_y, 0>>)>>
                      ELSE <<>>,
              outcome |-> "returned"]

\* the first detection of the wanted class, 0 when there is none
\* (the for loop of lines 195-205 with its break)
RECURSIVE FirstOfClass(_, _, _)
FirstOfClass(detections, target_object, i) ==
    IF i > Len(detections) THEN 0
    ELSE IF detections[i].cls = target_object THEN i
    ELSE FirstOfClass(detections, target_object, i + 1)

\* _detect_and_move_to_object, lines 182-207, on a controller with the given
\* fields.  drawn: whether _draw_on_image returns; cv2.circle is handed the
\* centre (640/2, 480/2), two floats, which the binding may refuse.
DetectAndMove(self, detections, depthAt, drawn) ==
    IF ~self.model THEN [self |-> self, log |-> <<>>, outcome |-> "TypeError"]
    ELSE LET i == FirstOfClass(detections, self.target_object, 1)
         IN  IF i = 0 THEN [self |-> self, log |-> <<>>, outcome |-> "returned"]
             ELSE LET b == detections[i].box
                      center == CalculateBoxCenter(b[1], b[3], b[2], b[4])
                      measured == [self EXCEPT !.object_distance = depthAt[center]]
                  IN  IF ~drawn
                      THEN [self |-> measured, log |-> <<>>, outcome |-> "cv2.error"]
                      ELSE LET framed ==
                                   [measured EXCEPT !.object_reference_frame =
                                      Deproject(center, measured.object_distance)]
                               moved == MoveToObject(framed.object_reference_frame)
                           IN  [self |-> framed, log |-> moved.log,
                                outcome |-> moved.outcome]

\* the fields of a controller: after the constructor (lines 47-50), object_distance
\* is 0 and object_reference_frame is None; model is set by load_yolo_model
CameraControllers ==
    [model : BOOLEAN, target_object : Classes, object_distance : {0},
     object_reference_frame : {None}]

CallDetectAndMove ==
    /\ pc = "idle" /\ task.name = "none"
    /\ \E self \in CameraControllers, detections \in Detections,
          depthAt \in [Centers -> Depths], drawn \in BOOLEAN :
       \E r \in {DetectAndMove(self, detections, depthAt, drawn)} :
            /\ task' = [name |-> "_detect_and_move_to_object", self |-> r.self,
                        detections |-> detections, depthAt |-> depthAt]
            /\ hwLog' = r.log
            /\ outcome' = r.outcome
    /\ caught' = "none"
    /\ op' = "_detect_and_move_to_object"
    /\ NoCall
    /\ UNCHANGED <<pc, locals, passLog>>

CallMoveToObject ==
    /\ pc = "idle" /\ task.name = "none"
    /\ \E target_object \in Classes,
          frame \in {None} \cup {Deproject(c, d) : c \in Centers, d \in Depths} :
       \E r \in {MoveToObject(frame)} :
            /\ task' = [name |-> "move_to_object",
                        self |-> [model |-> TRUE, target_object |-> target_object,
                                  object_distance |-> 0,
                                  object_reference_frame |-> frame]]
            /\ hwLog' = r.log
            /\ outcome' = r.outcome
    /\ caught' = "none"
    /\ op' = "move_to_object"
    /\ NoCall
    /\ UNCHANGED <<pc, locals, passLog>>

NextCamera ==
    \/ CallDetectAndMove /\ UNCHANGED <<responseVars, urpVars>>
    \/ CallMoveToObject /\ UNCHANGED <<responseVars, urpVars>>
    \/ TaskDone /\ UNCHANGED <<responseVars, urpVars>>

SpecCamera == InitTask /\ [][NextCamera]_vars

-----------------------------------------------------------------------------
(* Properties of the camera controller, checked under SpecCamera *)

\* the detections of the wanted class, by position
Matching ==
    {i \in 1..Len(task.detections) :
        task.detections[i].cls = task.self.target_object}

Translations(log) ==
    {i \in 1..Len(log) : log[i].dev = "arm" /\ log[i].cmd = "translate_tool"}

BoxCentre(b) == <<(b[1] + b[3]) \div 2, (b[2] + b[4]) \div 2>>

\* C28: one call of the detect-and-move step issues at most one tool-frame
\* translation and no other command; with no detection of the target class it
\* issues none; the one it issues is for the first detection of the target
\* class, whose measured depth is not zero, and its vector is (-x, -y, 0) for
\* the camera-frame offset (x, y, z) found for that detection.
C28_OneDetectionOneMove ==
    op = "_detect_and_move_to_object"
    => /\ Len(hwLog) <= 1 /\ Translations(hwLog) = DOMAIN hwLog
       /\ Matching = {} => hwLog = <<>>
       /\ hwLog # <<>>
          => LET first == task.detections[Min(Matching)]
                 offset == task.self.object_reference_frame
             IN  /\ task.depthAt[BoxCentre(first.box)] # 0
                 /\ task.self.object_distance = task.depthAt[BoxCentre(first.box)]
                 /\ offset[3] = task.self.object_distance
                 /\ hwLog[1].arg = <<0 - offset[1], 0 - offset[2], 0>>

\* the second detection is the first of the target class, off the centre of
\* the image and at a depth that is not zero: one translation towards it
C28_Witness ==
    /\ op = "_detect_and_move_to_object"
    /\ Len(task.detections) = 2 /\ Matching = {2}
    /\ Len(hwLog) = 1
    /\ hwLog[1].arg[1] # 0 /\ hwLog[1].arg[2] # 0

-----------------------------------------------------------------------------
(* The brake release within one pass, checked under SpecInitialize *)

BrakeReleases(log) == {i \in 1..Len(log) : log[i] = CmdBrakeRelease}

\* C29: in a single pass of initialize 'brake release' is sent at most once,
\* for every combination of robot mode and safety status.
C29_BrakeReleaseOncePerPass ==
    op = "initialize" => Cardinality(BrakeReleases(passLog)) <= 1

\* the passes that send it twice are those that restart the safety system and
\* read a robot mode that asks for the brake release of line 79
C29_TwiceOnlyAfterRestart ==
    (op = "initialize" /\ Cardinality(BrakeReleases(passLog)) > 1)
    => /\ Cardinality(BrakeReleases(passLog)) = 2
       /\ RestartPass /\ robot_mode \in PowerOnModes

-----------------------------------------------------------------------------
(* The goal pose and the early errors of pick and place, checked under
   SpecGripper *)

NamedAxes == {<<"z">>, <<"y">>, <<"-", "y">>, <<"x">>, <<"-", "x">>}

PickOrPlace == op \in {"pick", "place"}

RaisedUntouched == outcome \in {"TypeError", "Exception"} /\ hwLog = <<>>

\* the caller's list is after the call what it was before, and the move to
\* the goal went to that pose
GoalKept ==
    /\ task.after = task.goal
    /\ Len(hwLog) >= 2 => hwLog[2] = Arm("movel", task.goal)

\* C30 as stated: pick and place leave the caller's goal pose as it was, and
\* whenever the approach axis is not one of z, y, -y, x, -x, or the approach
\* distance is absent, they raise with no move and no gripper command issued.
C30_RaisesUnlessNamedAxis ==
    PickOrPlace
    => /\ GoalKept
       /\ (Falsy(task.approach_axis) \/ Lower(task.approach_axis) \notin NamedAxes
             \/ ~task.approach_distance.given)
          => RaisedUntouched

\* C30, amended: pick and place leave the caller's goal pose as it was; when
\* the approach axis is given and is not, ignoring case, one of z, y, -y, x,
\* -x, or when the approach distance is absent, they raise with no move and no
\* gripper command issued; an axis of None counts as z and raises nothing.
C30_GoalKeptRaisesEarly ==
    PickOrPlace
    => /\ GoalKept
       /\ ((~Falsy(task.approach_axis) /\ Lower(task.approach_axis) \notin NamedAxes)
             \/ ~task.approach_distance.given)
          => RaisedUntouched
       /\ (Falsy(task.approach_axis) /\ task.approach_distance.given
             /\ ~Falsy(task.goal))
          => /\ hwLog # <<>>
             /\ hwLog[1] = Arm("movel", [task.goal EXCEPT
                                           ![3] = @ + task.approach_distance.value])

\* pick with the axis "w" on a good goal: TypeError, nothing issued, the goal
\* as it was
C30_Witness ==
    /\ op = "pick" /\ task.approach_axis = <<"w">> /\ task.goal \in Poses
    /\ task.approach_distance.given
    /\ outcome = "TypeError" /\ hwLog = <<>> /\ task.after = task.goal

====
